---- MODULE Spec2Model ----
(***************************************************************************)
(* neo4j-python-migrations: the ledger of applied migrations kept as a     *)
(* chain of __Neo4jMigration nodes (dao.py), and the Executor that applies *)
(* and rolls back migrations against the target store (executor.py).       *)
(*                                                                         *)
(* A version string is modelled by the list of integers the store obtains  *)
(* from it with [x IN split(version, '.') | toInteger(x)]; the property    *)
(* value null (Python None) is the string Null.                            *)
(***************************************************************************)
EXTENDS Integers, Sequences, FiniteSets, TLC

\* ------------------------------------------------------------------ bounds
MaxVersion == 3       \* versions <<1>> .. <<MaxVersion>> exist as migration files
MaxChecksum == 2      \* a migration file's forward body has checksum 1..MaxChecksum
MaxCalls == 3         \* migrate/rollback calls made in one behaviour
MaxNodes == 4         \* nodes in the store when MigrationDAO objects are used directly

Null == "null"
Default == "<default>"
Baseline == <<0 - 1>>     \* the version 'BASELINE' (dao.py:24); no numeric version equals it

Versions == {<<i>> : i \in 1..MaxVersion}
Checksums == 1..MaxChecksum

\* A local migration definition (migration.py Migration): its version, the
\* checksum of its forward body, and whether it has a backward body.
Definitions == [version : Versions, checksum : Checksums, down : BOOLEAN]

VARIABLES
    nodes,              \* schema database: the __Neo4jMigration nodes
    edges,              \* schema database: the MIGRATED_TO relationships <<from id, to id>>
    constraint,         \* schema database: the uniqueness constraint exists
    target,             \* target store: versions whose forward body's effects are committed
    local_migrations,   \* Executor.local_migrations, per executor
    project,            \* MigrationDAO.project, per executor
    database,           \* MigrationDAO.database (the migration target), per executor
    schema_database,    \* MigrationDAO.schema_database, per executor
    matched,            \* per executor: the nodes m1 matched by the add_migration query
                        \*   it is running
    pc,                 \* per executor: the statement it is at
    call,               \* per executor: the call in progress, its arguments
    analysis,           \* per executor: the AnalyzingResult / applied list of the call
    todo,               \* per executor: migrations_to_apply / migrations_to_rollback not yet started
    cur,                \* per executor: the loop variable `migration`
    tx,                 \* per executor: the body transaction: whether it is open, and the
                        \*   target store as it was when it was begun
    trace,              \* per executor: what the call in progress (or the last call) did
    result,             \* per executor: how the last call ended
    calls               \* migrate/rollback calls started so far

vars == <<nodes, edges, constraint, target, local_migrations, project, database,
          schema_database, matched, pc, call, analysis, todo, cur, tx, trace, result, calls>>

store == <<nodes, edges, constraint>>
conf == <<local_migrations, project, database, schema_database>>

\* ------------------------------------------------------------------ helpers
RECURSIVE SeqToSet(_)
SeqToSet(s) == IF s = <<>> THEN {} ELSE {Head(s)} \cup SeqToSet(Tail(s))

Min(a, b) == IF a < b THEN a ELSE b

\* Cypher's ORDER BY on lists of integers: element by element, and a proper
\* prefix sorts before the longer list.
ListLess(a, b) ==
    \/ \E i \in 1..Min(Len(a), Len(b)) :
          /\ a[i] < b[i]
          /\ \A j \in 1..(i - 1) : a[j] = b[j]
    \/ /\ Len(a) < Len(b)
       /\ \A j \in 1..Len(a) : a[j] = b[j]

\* coalesce(x, '<default>')
Coalesce(x) == IF x = Null THEN Default ELSE x

\* ------------------------------------------------------------------ dao.py
NoChecksum == 0     \* the baseline node carries no checksum property

\* WHERE coalesce(m.project,'<default>') = coalesce($project,'<default>')
\*   AND coalesce(m.migrationTarget,'<default>') = coalesce($migration_target,'<default>')
ScopeMatch(m, p, t) ==
    /\ Coalesce(m.project) = Coalesce(p)
    /\ Coalesce(m.migrationTarget) = Coalesce(t)

Ids(N) == {n.id : n \in N}

\* The identity the store gives the next created node.
FreshId(N) == CHOOSE i \in 0..Cardinality(N) : i \notin Ids(N) /\ \A j \in 0..(i - 1) : j \in Ids(N)

\* create_baseline, first query: MATCH (m {version: $version}) WHERE <scope> RETURN m
BaselineRows(N, p, t) == {m \in N : m.version = Baseline /\ ScopeMatch(m, p, t)}

\* create_baseline, second query: CREATE (:__Neo4jMigration {version, project, migrationTarget})
BaselineCreated(N, p, t) ==
    N \cup {[id |-> FreshId(N), version |-> Baseline, project |-> p,
             migrationTarget |-> t, checksum |-> NoChecksum]}

\* The uniqueness constraint on (version, project, migrationTarget) binds only
\* the nodes that have all three properties.
Constrained(n) == n.project # Null /\ n.migrationTarget # Null

ViolatesConstraint(N) ==
    \E a, b \in N :
        /\ a.id # b.id
        /\ Constrained(a) /\ Constrained(b)
        /\ a.version = b.version
        /\ a.project = b.project
        /\ a.migrationTarget = b.migrationTarget

\* add_migration: the nodes m1 the MATCH ... AND NOT (m1)-[:MIGRATED_TO]->() finds.
Heads(N, E, p, t) ==
    {m1 \in N : ScopeMatch(m1, p, t) /\ ~\E m \in N : <<m1.id, m.id>> \in E}

\* The relationship created from the new node to the matched one.
RECURSIVE CreateAndLink_Reversed(_, _, _, _, _, _)
CreateAndLink_Reversed(N, E, H, p, t, mig) ==
    IF H = {} THEN [nodes |-> N, edges |-> E]
    ELSE LET m1 == CHOOSE h \in H : \A g \in H : h.id <= g.id
             m2 == [id |-> FreshId(N), version |-> mig.version, project |-> p,
                    migrationTarget |-> t, checksum |-> mig.checksum]
         IN CreateAndLink_Reversed(N \cup {m2}, E \cup {<<m2.id, m1.id>>}, H \ {m1},
                                   p, t, mig)

\* add_migration: CREATE (m2 {...}) MERGE (m1)-[:MIGRATED_TO]->(m2), once for every
\* matched m1 of H, lowest identity first.
RECURSIVE CreateAndLink(_, _, _, _, _, _)
CreateAndLink(N, E, H, p, t, mig) ==
    IF H = {} THEN [nodes |-> N, edges |-> E]
    ELSE LET m1 == CHOOSE h \in H : \A g \in H : h.id <= g.id
             m2 == [id |-> FreshId(N), version |-> mig.version, project |-> p,
                    migrationTarget |-> t, checksum |-> mig.checksum]
         IN CreateAndLink(N \cup {m2}, E \cup {<<m1.id, m2.id>>}, H \ {m1}, p, t, mig)

\* An add_migration that does not look at the counters.
CountersRejected_Never(nodes_created, relationships_created) == FALSE

\* The check add_migration makes on the counters of the result summary.
CountersRejected(nodes_created, relationships_created) ==
    nodes_created # 1 /\ relationships_created # 1

\* An add_migration whose error leaves what the query created in the store.
AddMigration_KeepsOnError(N, E, c, p, t, mig, dry_run, fault) ==
    LET H == Heads(N, E, p, t)
        run == CreateAndLink(N, E, H, p, t, mig)
        nodes_created == Cardinality(run.nodes) - Cardinality(N)
        relationships_created == Cardinality(run.edges) - Cardinality(E)
    IN  IF dry_run /\ (fault \/ (c /\ ViolatesConstraint(run.nodes)))
            THEN [nodes |-> N, edges |-> E, outcome |-> "Error"]
        ELSE IF fault \/ (c /\ ViolatesConstraint(run.nodes))
            THEN [nodes |-> run.nodes, edges |-> run.edges, outcome |-> "Error"]
        ELSE IF CountersRejected(nodes_created, relationships_created)
            THEN [nodes |-> N, edges |-> E, outcome |-> "IntegrityError"]
        ELSE IF dry_run
            THEN [nodes |-> N, edges |-> E, outcome |-> "ok"]
        ELSE [nodes |-> run.nodes, edges |-> run.edges, outcome |-> "ok"]

\* An add_migration that commits whatever dry_run says.
AddMigration_DryRunCommits(N, E, c, p, t, mig, dry_run, fault) ==
    LET H == Heads(N, E, p, t)
        run == CreateAndLink(N, E, H, p, t, mig)
        nodes_created == Cardinality(run.nodes) - Cardinality(N)
        relationships_created == Cardinality(run.edges) - Cardinality(E)
    IN  IF fault \/ (c /\ ViolatesConstraint(run.nodes))
            THEN [nodes |-> N, edges |-> E, outcome |-> "Error"]
        ELSE IF CountersRejected(nodes_created, relationships_created)
            THEN [nodes |-> N, edges |-> E, outcome |-> "IntegrityError"]
        ELSE [nodes |-> run.nodes, edges |-> run.edges, outcome |-> "ok"]

\* add_migration(migration, duration, dry_run) on the graph (N, E) with the constraint
\* c: the graph it leaves and whether it returned ("ok") or raised. `fault` is an
\* error of the driver or of getuser() while the query is prepared or run.
AddMigration(N, E, c, p, t, mig, dry_run, fault) ==
    LET H == Heads(N, E, p, t)
        run == CreateAndLink(N, E, H, p, t, mig)
        nodes_created == Cardinality(run.nodes) - Cardinality(N)
        relationships_created == Cardinality(run.edges) - Cardinality(E)
    IN  IF fault \/ (c /\ ViolatesConstraint(run.nodes))
            THEN [nodes |-> N, edges |-> E, outcome |-> "Error"]
        ELSE IF CountersRejected(nodes_created, relationships_created)
            THEN [nodes |-> N, edges |-> E, outcome |-> "IntegrityError"]
        ELSE IF dry_run
            THEN [nodes |-> N, edges |-> E, outcome |-> "ok"]
        ELSE [nodes |-> run.nodes, edges |-> run.edges, outcome |-> "ok"]

\* Nodes reachable from n over one or more MIGRATED_TO relationships.
RECURSIVE ReachFrom(_, _, _)
ReachFrom(F, N, E) ==
    LET G == F \cup {m \in N : \E f \in F : <<f.id, m.id>> \in E}
    IN IF G = F THEN F ELSE ReachFrom(G, N, E)

Successors(n, N, E) == {m \in N : <<n.id, m.id>> \in E}

\* get_applied_migrations: one row for every baseline b and every node m of the
\* scope at the end of a path b -[:MIGRATED_TO*]-> m.
AppliedRows(N, E, p, t) ==
    {r \in N \X N :
        /\ r[1].version = Baseline
        /\ ScopeMatch(r[2], p, t)
        /\ r[2] \in ReachFrom(Successors(r[1], N, E), N, E)}

RowKey(r) == r[2].version

\* ORDER BY version: the sequences that list every row of S once, ascending
\* by version (rows with equal versions come in either order).
SortedRows(S) ==
    {s \in [1..Cardinality(S) -> S] :
        /\ \A i, j \in 1..Cardinality(S) : i # j => s[i] # s[j]
        /\ \A i \in 1..(Cardinality(S) - 1) :
              ~ListLess(RowKey(s[i + 1]), RowKey(s[i]))}

\* Migration.from_dict(row["m"]), as far as the Executor and the analyzer read it.
FromDict(m) == [version |-> m.version, checksum |-> m.checksum]

\* A get_applied_migrations that returns the rows in the order of the chain.
GetAppliedMigrations_ChainOrder(N, E, p, t) ==
    {[i \in 1..Len(s) |-> FromDict(s[i][2])] :
        s \in {q \in [1..Cardinality(AppliedRows(N, E, p, t)) -> AppliedRows(N, E, p, t)] :
                  \A i \in 1..(Len(q) - 1) : <<q[i][2].id, q[i + 1][2].id>> \in E}}

\* get_applied_migrations: the lists it may return (ORDER BY version; rows
\* with equal keys come in either order).
GetAppliedMigrations(N, E, p, t) ==
    {[i \in 1..Len(s) |-> FromDict(s[i][2])] :
        s \in SortedRows(AppliedRows(N, E, p, t))}

\* remove_migration, first and third query: the rows (prev, m, next) with
\* next = m itself standing for the null of the OPTIONAL MATCH.
RemoveRows(N, E, p, t, version) ==
    {r \in N \X N \X N :
        /\ <<r[1].id, r[2].id>> \in E
        /\ r[2].version = version
        /\ ScopeMatch(r[2], p, t)
        /\ IF Successors(r[2], N, E) = {} THEN r[3] = r[2]
           ELSE r[3] \in Successors(r[2], N, E)}

\* A remove_migration that deletes the node and its relationships without linking
\* the previous node to the next one.
RemoveMigration_NoRelink(N, E, p, t, version, fault) ==
    LET rows == RemoveRows(N, E, p, t, version)
        gone == {r[2] : r \in rows}
    IN  IF fault THEN [nodes |-> N, edges |-> E, outcome |-> "Error"]
        ELSE IF rows = {} THEN [nodes |-> N, edges |-> E, outcome |-> "NotFound"]
        ELSE IF Cardinality(rows) # 1
            THEN [nodes |-> N, edges |-> E, outcome |-> "IntegrityError"]
        ELSE [nodes |-> N \ gone,
              edges |-> {e \in E : \A g \in gone : e[1] # g.id /\ e[2] # g.id},
              outcome |-> "ok"]

\* A remove_migration whose transaction is committed when the call raises.
RemoveMigration_KeepsOnError(N, E, p, t, version, fault) ==
    LET rows == RemoveRows(N, E, p, t, version)
        relinked == E \cup {<<r[1].id, r[3].id>> : r \in {q \in rows : q[3] # q[2]}}
        gone == {r[2] : r \in rows}
        deleted_count == Cardinality(rows)
    IN  IF fault THEN [nodes |-> N, edges |-> E, outcome |-> "Error"]
        ELSE IF rows = {} THEN [nodes |-> N, edges |-> E, outcome |-> "NotFound"]
        ELSE [nodes |-> N \ gone,
              edges |-> {e \in relinked : \A g \in gone : e[1] # g.id /\ e[2] # g.id},
              outcome |-> IF deleted_count # 1 THEN "IntegrityError" ELSE "ok"]

\* remove_migration(version) on the graph (N, E): the graph it leaves and how it
\* returned. `fault` is an error of the driver or of getuser().
RemoveMigration(N, E, p, t, version, fault) ==
    LET rows == RemoveRows(N, E, p, t, version)
        relinked == E \cup {<<r[1].id, r[3].id>> : r \in {q \in rows : q[3] # q[2]}}
        gone == {r[2] : r \in rows}
        deleted_count == Cardinality(rows)
    IN  IF fault THEN [nodes |-> N, edges |-> E, outcome |-> "Error"]
        ELSE IF rows = {} THEN [nodes |-> N, edges |-> E, outcome |-> "NotFound"]
        ELSE IF deleted_count # 1
            THEN [nodes |-> N, edges |-> E, outcome |-> "IntegrityError"]
        ELSE [nodes |-> N \ gone,
              edges |-> {e \in relinked : \A g \in gone : e[1] # g.id /\ e[2] # g.id},
              outcome |-> "ok"]

\* ------------------------------------------------------------------ loader and analyzer
NoVersion == <<>>       \* None where a version is expected

\* loader.load(path): the definitions of a migrations directory, ascending by
\* version, no version twice.
LoadResults ==
    {s \in UNION {[1..n -> Definitions] : n \in 0..MaxVersion} :
        \A i \in 1..(Len(s) - 1) : ListLess(s[i].version, s[i + 1].version)}

VersionsOf(s) == {s[i].version : i \in 1..Len(s)}

\* The finding of the analyzer for one applied entry: "ok", or the status of
\* the invalid version.
Finding(local, remote) ==
    IF remote.version \notin VersionsOf(local) THEN "MISSED_LOCALLY"
    ELSE IF \E i \in 1..Len(local) :
                local[i].version = remote.version /\ local[i].checksum # remote.checksum
        THEN "DIFFERENT"
    ELSE "ok"

\* analyzer.analyze(local_migrations, applied_migrations)
Analyze(local, applied) ==
    LET IsPending(d) == d.version \notin VersionsOf(applied)
        IsInvalid(m) == Finding(local, m) # "ok"
        bad == SelectSeq(applied, IsInvalid)
    IN [applied |-> applied,
        pending_migrations |-> SelectSeq(local, IsPending),
        invalid_versions |->
            [i \in 1..Len(bad) |-> [version |-> bad[i].version,
                                    status |-> Finding(local, bad[i])]],
        latest_applied_version |->
            IF applied = <<>> THEN NoVersion ELSE applied[Len(applied)].version]

NoAnalysis == Analyze(<<>>, <<>>)

\* ------------------------------------------------------------------ executor.py
Event(ev, version) == [ev |-> ev, version |-> version]
Outcome(status, step) == [status |-> status, step |-> step]
NoCall == [op |-> "none", version |-> NoVersion, callback |-> FALSE]
NoTx == [open |-> FALSE, base |-> {}]
NoMigration == [version |-> NoVersion, checksum |-> NoChecksum]

\* An Executor that passes schema_database on as it was given.
SchemaDatabase_AsGiven(db, schema_db) == schema_db

\* Python's truth value of an Optional[str]: None and '' are false.
Empty == ""
Truthy(x) == x # Null /\ x # Empty

\* Executor.__init__: the database the ledger is kept in.
SchemaDatabase(db, schema_db) ==
    IF Truthy(db) /\ ~Truthy(schema_db) THEN db ELSE schema_db

\* MigrationDAO.__init__: the migration target recorded on the ledger's nodes.
MigrationTarget(db, schema_db) == IF db = schema_db THEN Null ELSE db

\* A validation that refuses entries missed locally and lets drifted ones pass.
Blocked_IgnoresDrift(res) ==
    \E i \in 1..Len(res.invalid_versions) : res.invalid_versions[i].status = "MISSED_LOCALLY"

\* migrate: `if analyzing_result.invalid_versions: raise ValueError`
Blocked(res) == res.invalid_versions # <<>>

\* The test inverted: `if analyzing_result.latest_applied_version`.
NeedsBaseline_Inverted(res) == res.latest_applied_version # NoVersion

\* migrate: `if not analyzing_result.latest_applied_version`
NeedsBaseline(res) == res.latest_applied_version = NoVersion

\* migrate: the index of `version` in the pending migrations, 0 when there is none.
PendingIndex(pending, version) ==
    IF \E i \in 1..Len(pending) : pending[i].version = version
    THEN CHOOSE i \in 1..Len(pending) :
            /\ pending[i].version = version
            /\ \A j \in 1..(i - 1) : pending[j].version # version
    ELSE 0

\* The slice taken without the target version: `[:version_index]`.
MigrationsToApply_Exclusive(pending, version) ==
    IF version = NoVersion THEN pending
    ELSE SubSeq(pending, 1, PendingIndex(pending, version) - 1)

\* The pending migrations taken newest first.
MigrationsToApply_Descending(pending, version) ==
    LET s == IF version = NoVersion THEN pending
             ELSE SubSeq(pending, 1, PendingIndex(pending, version))
    IN [i \in 1..Len(s) |-> s[Len(s) + 1 - i]]

\* migrate: migrations_to_apply, given that the version (if any) was found.
MigrationsToApply(pending, version) ==
    IF version = NoVersion THEN pending
    ELSE SubSeq(pending, 1, PendingIndex(pending, version))

\* The executor e has ended its call with the given outcome.
Ends(e, status, step) ==
    /\ pc' = [pc EXCEPT ![e] = "returned"]
    /\ result' = [result EXCEPT ![e] = Outcome(status, step)]

Log(e, ev, version) == trace' = [trace EXCEPT ![e] = Append(@, Event(ev, version))]

\* An exception that leaves the transaction of the body open.
Aborts_LeavesOpen(e, status, step, raised) ==
    /\ tx' = tx
    /\ trace' = [trace EXCEPT ![e] = Append(@, Event(raised, cur[e].version))]
    /\ Ends(e, status, step)

\* A transaction left by an exception is rolled back when its `with` block exits.
\* `raised` is the event of the step that raised.
Aborts(e, status, step, raised) ==
    /\ tx' = [tx EXCEPT ![e].open = FALSE]
    /\ trace' = [trace EXCEPT ![e] = Append(Append(@, Event(raised, cur[e].version)),
                                            Event("abort", cur[e].version))]
    /\ Ends(e, status, step)

\* Executor(driver, migrations_path, ...): a new executor over the same store,
\* with whatever the migrations directory now holds.
NewExecutor(e) ==
    /\ pc[e] = "idle"
    /\ calls < MaxCalls
    /\ \E loaded \in LoadResults :
          /\ local_migrations' = [local_migrations EXCEPT ![e] = loaded]
    /\ UNCHANGED <<store, target, project, database, schema_database, matched, pc, call,
                   analysis, todo,
                   cur, tx, trace, result, calls>>

\* The call is over: its frame (arguments, loop variables, what it observed) is gone.
Forget(e) ==
    /\ pc[e] = "returned"
    /\ pc' = [pc EXCEPT ![e] = "idle"]
    /\ call' = [call EXCEPT ![e] = NoCall]
    /\ analysis' = [analysis EXCEPT ![e] = NoAnalysis]
    /\ todo' = [todo EXCEPT ![e] = <<>>]
    /\ cur' = [cur EXCEPT ![e] = NoMigration]
    /\ trace' = [trace EXCEPT ![e] = <<>>]
    /\ result' = [result EXCEPT ![e] = Outcome("none", "none")]
    /\ tx' = [tx EXCEPT ![e] = NoTx]
    /\ UNCHANGED <<store, target, conf, matched, calls>>

\* migrate(version, on_apply), lines 62-67: analyze and refuse invalid versions.
MigrateCall(e) ==
    /\ pc[e] = "idle"
    /\ calls < MaxCalls
    /\ calls' = calls + 1
    /\ \E version \in Versions \cup {NoVersion}, on_apply \in BOOLEAN :
          call' = [call EXCEPT ![e] = [op |-> "migrate", version |-> version,
                                       callback |-> on_apply]]
    /\ \E applied \in GetAppliedMigrations(nodes, edges, project[e], database[e]) :
          LET res == Analyze(local_migrations[e], applied)
          IN /\ analysis' = [analysis EXCEPT ![e] = res]
             /\ IF Blocked(res)
                   THEN Ends(e, "ValidationError", "analyze")
                   ELSE /\ pc' = [pc EXCEPT ![e] =
                                    IF NeedsBaseline(res) THEN "create_baseline" ELSE "select"]
                        /\ result' = [result EXCEPT ![e] = Outcome("running", "none")]
    /\ trace' = [trace EXCEPT ![e] = <<>>]
    /\ todo' = [todo EXCEPT ![e] = <<>>]
    /\ cur' = [cur EXCEPT ![e] = NoMigration]
    /\ UNCHANGED <<store, target, conf, matched, tx>>

\* create_baseline, lines 47-60: look for the baseline of the scope.
CreateBaselineMatch(e) ==
    /\ pc[e] = "create_baseline"
    /\ pc' = [pc EXCEPT ![e] =
                IF BaselineRows(nodes, project[e], database[e]) # {}
                THEN "create_constraints" ELSE "create_baseline_node"]
    /\ Log(e, "create_baseline", NoVersion)
    /\ UNCHANGED <<store, target, conf, matched, call, analysis, todo, cur, tx, result, calls>>

\* create_baseline, lines 62-71: create it.
CreateBaselineNode(e) ==
    /\ pc[e] = "create_baseline_node"
    /\ nodes' = BaselineCreated(nodes, project[e], database[e])
    /\ pc' = [pc EXCEPT ![e] = "create_constraints"]
    /\ UNCHANGED <<edges, constraint, target, conf, matched, call, analysis, todo, cur, tx,
                   trace, result, calls>>

\* create_constraints
CreateConstraints(e) ==
    /\ pc[e] = "create_constraints"
    /\ Log(e, "create_constraints", NoVersion)
    /\ IF ViolatesConstraint(nodes)
          THEN /\ Ends(e, "Error", "create_constraints")
               /\ UNCHANGED constraint
          ELSE /\ constraint' = TRUE
               /\ pc' = [pc EXCEPT ![e] = "select"]
               /\ UNCHANGED result
    /\ UNCHANGED <<nodes, edges, target, conf, matched, call, analysis, todo, cur, tx, calls>>

\* migrate, lines 74-87: the migrations to apply.
MigrateSelect(e) ==
    /\ pc[e] = "select"
    /\ LET pending == analysis[e].pending_migrations
           version == call[e].version
       IN IF version # NoVersion /\ PendingIndex(pending, version) = 0
             THEN /\ Ends(e, "NotFound", "select")
                  /\ UNCHANGED todo
             ELSE /\ todo' = [todo EXCEPT ![e] = MigrationsToApply(pending, version)]
                  /\ pc' = [pc EXCEPT ![e] = "loop"]
                  /\ UNCHANGED result
    /\ UNCHANGED <<store, target, conf, matched, call, analysis, cur, tx, trace, calls>>

\* migrate, line 89: the loop is exhausted and migrate returns.
MigrateReturn(e) ==
    /\ pc[e] = "loop"
    /\ todo[e] = <<>>
    /\ Ends(e, "ok", "none")
    /\ UNCHANGED <<store, target, conf, matched, call, analysis, todo, cur, tx, trace, calls>>

\* migrate, lines 89-90: the next migration, and add_migration(migration, 0, dry_run=True).
MigrateDryRun(e) ==
    /\ pc[e] = "loop"
    /\ todo[e] # <<>>
    /\ cur' = [cur EXCEPT ![e] = Head(todo[e])]
    /\ todo' = [todo EXCEPT ![e] = Tail(@)]
    /\ \E fault \in BOOLEAN :
          LET r == AddMigration(nodes, edges, constraint, project[e], database[e],
                                Head(todo[e]), TRUE, fault)
          IN /\ nodes' = r.nodes
             /\ edges' = r.edges
             /\ IF r.outcome = "ok"
                   THEN /\ Log(e, "dry_append", Head(todo[e]).version)
                        /\ pc' = [pc EXCEPT ![e] = "begin"]
                        /\ UNCHANGED result
                   ELSE /\ Log(e, "dry_append_raised", Head(todo[e]).version)
                        /\ Ends(e, r.outcome, "dry_append")
    /\ UNCHANGED <<constraint, target, conf, matched, call, analysis, tx, calls>>

\* migrate, lines 92-93: session.begin_transaction() on the migrated database.
MigrateBegin(e) ==
    /\ pc[e] = "begin"
    /\ tx' = [tx EXCEPT ![e] = [open |-> TRUE, base |-> target]]
    /\ Log(e, "begin", cur[e].version)
    /\ pc' = [pc EXCEPT ![e] = "apply"]
    /\ UNCHANGED <<store, target, conf, matched, call, analysis, todo, cur, result, calls>>

\* A loop that swallows the error of a forward body and goes on with the next
\* migration.
MigrateApply_Continues(e) ==
    /\ pc[e] = "apply"
    /\ \E raises \in BOOLEAN :
          IF raises
          THEN /\ tx' = [tx EXCEPT ![e].open = FALSE]
               /\ trace' = [trace EXCEPT ![e] =
                              Append(Append(@, Event("apply_raised", cur[e].version)),
                                     Event("abort", cur[e].version))]
               /\ pc' = [pc EXCEPT ![e] = "loop"]
               /\ UNCHANGED result
          ELSE /\ Log(e, "apply", cur[e].version)
               /\ pc' = [pc EXCEPT ![e] = "on_apply"]
               /\ UNCHANGED <<tx, result>>
    /\ UNCHANGED <<store, target, conf, matched, call, analysis, todo, cur, calls>>

\* migrate, line 95: migration.apply(tx), which may raise.
MigrateApply(e) ==
    /\ pc[e] = "apply"
    /\ \E raises \in BOOLEAN :
          IF raises THEN Aborts(e, "Error", "apply", "apply_raised")
          ELSE /\ Log(e, "apply", cur[e].version)
               /\ pc' = [pc EXCEPT ![e] = "on_apply"]
               /\ UNCHANGED <<tx, result>>
    /\ UNCHANGED <<store, target, conf, matched, call, analysis, todo, cur, calls>>

\* on_apply called after the `with` block of the transaction: when it raises the
\* forward body is already committed.
MigrateOnApply_AfterCommit(e) ==
    /\ pc[e] = "on_apply"
    /\ IF call[e].callback
          THEN \E raises \in BOOLEAN :
                  IF raises
                  THEN /\ target' = target \cup {cur[e].version}
                       /\ tx' = [tx EXCEPT ![e].open = FALSE]
                       /\ Log(e, "on_apply_raised", cur[e].version)
                       /\ Ends(e, "Error", "on_apply")
                  ELSE /\ Log(e, "on_apply", cur[e].version)
                       /\ pc' = [pc EXCEPT ![e] = "commit"]
                       /\ UNCHANGED <<tx, result, target>>
          ELSE /\ pc' = [pc EXCEPT ![e] = "commit"]
               /\ UNCHANGED <<tx, result, trace, target>>
    /\ UNCHANGED <<store, conf, matched, call, analysis, todo, cur, calls>>

\* migrate, lines 98-99: on_apply(migration), which may raise.
MigrateOnApply(e) ==
    /\ pc[e] = "on_apply"
    /\ IF call[e].callback
          THEN \E raises \in BOOLEAN :
                  IF raises THEN Aborts(e, "Error", "on_apply", "on_apply_raised")
                  ELSE /\ Log(e, "on_apply", cur[e].version)
                       /\ pc' = [pc EXCEPT ![e] = "commit"]
                       /\ UNCHANGED <<tx, result>>
          ELSE /\ pc' = [pc EXCEPT ![e] = "commit"]
               /\ UNCHANGED <<tx, result, trace>>
    /\ UNCHANGED <<store, target, conf, matched, call, analysis, todo, cur, calls>>

\* A migrate that records the migration although the commit of its body failed.
MigrateCommit_RecordsOnFailure(e) ==
    /\ pc[e] = "commit"
    /\ \E fails \in BOOLEAN :
          IF fails
          THEN /\ tx' = [tx EXCEPT ![e].open = FALSE]
               /\ trace' = [trace EXCEPT ![e] =
                              Append(Append(@, Event("commit_failed", cur[e].version)),
                                     Event("abort", cur[e].version))]
               /\ pc' = [pc EXCEPT ![e] = "record"]
               /\ UNCHANGED <<target, result>>
          ELSE /\ target' = target \cup {cur[e].version}
               /\ tx' = [tx EXCEPT ![e].open = FALSE]
               /\ Log(e, "commit", cur[e].version)
               /\ pc' = [pc EXCEPT ![e] = "record"]
               /\ UNCHANGED result
    /\ UNCHANGED <<store, conf, matched, call, analysis, todo, cur, calls>>

\* migrate, line 93: the `with` block of the transaction exits and commits it.
MigrateCommit(e) ==
    /\ pc[e] = "commit"
    /\ \E fails \in BOOLEAN :
          IF fails THEN Aborts(e, "Error", "commit", "commit_failed") /\ UNCHANGED target
          ELSE /\ target' = target \cup {cur[e].version}
               /\ tx' = [tx EXCEPT ![e].open = FALSE]
               /\ Log(e, "commit", cur[e].version)
               /\ pc' = [pc EXCEPT ![e] = "record"]
               /\ UNCHANGED result
    /\ UNCHANGED <<store, conf, matched, call, analysis, todo, cur, calls>>

\* migrate, line 101: add_migration(migration, duration).
MigrateRecord(e) ==
    /\ pc[e] = "record"
    /\ \E fault \in BOOLEAN :
          LET r == AddMigration(nodes, edges, constraint, project[e], database[e],
                                cur[e], FALSE, fault)
          IN /\ nodes' = r.nodes
             /\ edges' = r.edges
             /\ IF r.outcome = "ok"
                   THEN /\ Log(e, "append", cur[e].version)
                        /\ pc' = [pc EXCEPT ![e] = "loop"]
                        /\ UNCHANGED result
                   ELSE /\ Log(e, "append_raised", cur[e].version)
                        /\ Ends(e, r.outcome, "append")
    /\ UNCHANGED <<constraint, target, conf, matched, call, analysis, todo, cur, tx, calls>>

\* rollback: the index of `version` in the applied migrations, 0 when there is none.
AppliedIndex(applied, version) ==
    IF \E i \in 1..Len(applied) : applied[i].version = version
    THEN CHOOSE i \in 1..Len(applied) :
            /\ applied[i].version = version
            /\ \A j \in 1..(i - 1) : applied[j].version # version
    ELSE 0

Reversed(s) == [i \in 1..Len(s) |-> s[Len(s) + 1 - i]]

\* The slice taken without `reversed`.
MigrationsToRollback_Ascending(applied, version) ==
    IF version = NoVersion THEN <<applied[Len(applied)]>>
    ELSE SubSeq(applied, AppliedIndex(applied, version) + 1, Len(applied))

\* rollback, lines 124-141: migrations_to_rollback, given that the version (if
\* any) was found among the applied migrations, which are not empty.
MigrationsToRollback(applied, version) ==
    IF version = NoVersion THEN <<applied[Len(applied)]>>
    ELSE Reversed(SubSeq(applied, AppliedIndex(applied, version) + 1, Len(applied)))

\* rollback, lines 146-149: the local migration of that version, NoMigration for None.
LocalMigration(local, version) ==
    IF \E i \in 1..Len(local) : local[i].version = version
    THEN local[CHOOSE i \in 1..Len(local) :
                /\ local[i].version = version
                /\ \A j \in 1..(i - 1) : local[j].version # version]
    ELSE [version |-> NoVersion, checksum |-> NoChecksum, down |-> FALSE]

\* A rollback that takes a version it does not find for the request to roll back
\* every applied migration.
RollbackRefusal_MissingVersionPasses(applied, version) ==
    IF applied = <<>> THEN "ValidationError" ELSE "none"

\* A rollback that reports an empty ledger as a version that was not found.
RollbackRefusal_EmptyIsNotFound(applied, version) ==
    IF applied = <<>> THEN "NotFound"
    ELSE IF version # NoVersion /\ AppliedIndex(applied, version) = 0 THEN "NotFound"
    ELSE "none"

\* rollback, lines 120-138: the error raised before anything is rolled back,
\* "none" when the call goes on.
RollbackRefusal(applied, version) ==
    IF applied = <<>> THEN "ValidationError"
    ELSE IF version # NoVersion /\ AppliedIndex(applied, version) = 0 THEN "NotFound"
    ELSE "none"

\* rollback(version, on_rollback), lines 118-141.
RollbackCall(e) ==
    /\ pc[e] = "idle"
    /\ calls < MaxCalls
    /\ calls' = calls + 1
    /\ \E version \in Versions \cup {NoVersion}, on_rollback \in BOOLEAN,
          applied \in GetAppliedMigrations(nodes, edges, project[e], database[e]) :
          /\ call' = [call EXCEPT ![e] = [op |-> "rollback", version |-> version,
                                          callback |-> on_rollback]]
          /\ analysis' = [analysis EXCEPT ![e] = [NoAnalysis EXCEPT !.applied = applied]]
          /\ IF RollbackRefusal(applied, version) # "none"
                THEN /\ Ends(e, RollbackRefusal(applied, version),
                             IF applied = <<>> THEN "fetch" ELSE "select")
                     /\ todo' = [todo EXCEPT ![e] = <<>>]
             ELSE /\ todo' = [todo EXCEPT ![e] = MigrationsToRollback(applied, version)]
                  /\ pc' = [pc EXCEPT ![e] = "r_loop"]
                  /\ result' = [result EXCEPT ![e] = Outcome("running", "none")]
    /\ trace' = [trace EXCEPT ![e] = <<>>]
    /\ cur' = [cur EXCEPT ![e] = NoMigration]
    /\ UNCHANGED <<store, target, conf, matched, tx>>

\* rollback, line 144: the loop is exhausted and rollback returns.
RollbackReturn(e) ==
    /\ pc[e] = "r_loop"
    /\ todo[e] = <<>>
    /\ Ends(e, "ok", "none")
    /\ UNCHANGED <<store, target, conf, matched, call, analysis, todo, cur, tx, trace, calls>>

\* A loop that skips an applied migration without a local migration and goes
\* on with the next one.
RollbackBegin_SkipsMissing(e) ==
    /\ pc[e] = "r_loop"
    /\ todo[e] # <<>>
    /\ cur' = [cur EXCEPT ![e] = Head(todo[e])]
    /\ todo' = [todo EXCEPT ![e] = Tail(@)]
    /\ IF LocalMigration(local_migrations[e], Head(todo[e]).version).version = NoVersion
          THEN /\ pc' = [pc EXCEPT ![e] = "r_loop"]
               /\ UNCHANGED <<tx, trace, result>>
          ELSE /\ tx' = [tx EXCEPT ![e] = [open |-> TRUE, base |-> target]]
               /\ Log(e, "begin", Head(todo[e]).version)
               /\ pc' = [pc EXCEPT ![e] = "r_rollback"]
               /\ UNCHANGED result
    /\ UNCHANGED <<store, target, conf, matched, call, analysis, calls>>

\* rollback, lines 144-159: the next migration, its local migration, and
\* session.begin_transaction() on the migrated database.
RollbackBegin(e) ==
    /\ pc[e] = "r_loop"
    /\ todo[e] # <<>>
    /\ cur' = [cur EXCEPT ![e] = Head(todo[e])]
    /\ todo' = [todo EXCEPT ![e] = Tail(@)]
    /\ IF LocalMigration(local_migrations[e], Head(todo[e]).version).version = NoVersion
          THEN /\ Ends(e, "NotFound", "local")
               /\ UNCHANGED <<tx, trace>>
          ELSE /\ tx' = [tx EXCEPT ![e] = [open |-> TRUE, base |-> target]]
               /\ Log(e, "begin", Head(todo[e]).version)
               /\ pc' = [pc EXCEPT ![e] = "r_rollback"]
               /\ UNCHANGED result
    /\ UNCHANGED <<store, target, conf, matched, call, analysis, calls>>

\* What a backward body or an on_rollback callback may do: return, raise
\* NotImplementedError, which the except clause of lines 170-173 turns into the
\* ValueError 'does not support rollback', or raise another exception.
Raised == {"none", "NotImplementedError", "Error"}

\* A rollback that takes a migration without a backward body for one with an
\* empty backward body.
RollbackBody_RunsWithoutDown(e) ==
    /\ pc[e] = "r_rollback"
    /\ \E raised \in Raised :
          IF raised = "NotImplementedError"
          THEN Aborts(e, "UnsupportedOperation", "rollback", "rollback_raised")
          ELSE IF raised = "Error"
          THEN Aborts(e, "Error", "rollback", "rollback_raised")
          ELSE /\ Log(e, "rollback", cur[e].version)
               /\ pc' = [pc EXCEPT ![e] = "r_on_rollback"]
               /\ UNCHANGED <<tx, result>>
    /\ UNCHANGED <<store, target, conf, matched, call, analysis, todo, cur, calls>>

\* A loop that swallows the error of a backward body and goes on with the next
\* migration.
RollbackBody_Continues(e) ==
    /\ pc[e] = "r_rollback"
    /\ IF ~LocalMigration(local_migrations[e], cur[e].version).down
          THEN Aborts(e, "UnsupportedOperation", "rollback", "not_implemented")
          ELSE \E raised \in Raised :
                  IF raised # "none"
                  THEN /\ tx' = [tx EXCEPT ![e].open = FALSE]
                       /\ trace' = [trace EXCEPT ![e] =
                              Append(Append(@, Event("rollback_raised", cur[e].version)),
                                     Event("abort", cur[e].version))]
                       /\ pc' = [pc EXCEPT ![e] = "r_loop"]
                       /\ UNCHANGED result
                  ELSE /\ Log(e, "rollback", cur[e].version)
                       /\ pc' = [pc EXCEPT ![e] = "r_on_rollback"]
                       /\ UNCHANGED <<tx, result>>
    /\ UNCHANGED <<store, target, conf, matched, call, analysis, todo, cur, calls>>

\* rollback, lines 161-162 and 170-173: local_migration.rollback(tx);
\* NotImplementedError without a backward body, and the body may raise, a
\* NotImplementedError of its own included.
RollbackBody(e) ==
    /\ pc[e] = "r_rollback"
    /\ IF ~LocalMigration(local_migrations[e], cur[e].version).down
          THEN Aborts(e, "UnsupportedOperation", "rollback", "not_implemented")
          ELSE \E raised \in Raised :
                  IF raised = "NotImplementedError"
                  THEN Aborts(e, "UnsupportedOperation", "rollback", "rollback_raised")
                  ELSE IF raised = "Error"
                  THEN Aborts(e, "Error", "rollback", "rollback_raised")
                  ELSE /\ Log(e, "rollback", cur[e].version)
                       /\ pc' = [pc EXCEPT ![e] = "r_on_rollback"]
                       /\ UNCHANGED <<tx, result>>
    /\ UNCHANGED <<store, target, conf, matched, call, analysis, todo, cur, calls>>

\* rollback, lines 165-166 and 170-173: on_rollback(local_migration), which may
\* raise, a NotImplementedError included.
RollbackOnRollback(e) ==
    /\ pc[e] = "r_on_rollback"
    /\ IF call[e].callback
          THEN \E raised \in Raised :
                  IF raised = "NotImplementedError"
                  THEN Aborts(e, "UnsupportedOperation", "on_rollback", "on_rollback_raised")
                  ELSE IF raised = "Error"
                  THEN Aborts(e, "Error", "on_rollback", "on_rollback_raised")
                  ELSE /\ Log(e, "on_rollback", cur[e].version)
                       /\ pc' = [pc EXCEPT ![e] = "r_remove"]
                       /\ UNCHANGED <<tx, result>>
          ELSE /\ pc' = [pc EXCEPT ![e] = "r_remove"]
               /\ UNCHANGED <<tx, result, trace>>
    /\ UNCHANGED <<store, target, conf, matched, call, analysis, todo, cur, calls>>

\* rollback, line 169: self.dao.remove_migration(migration.version), inside the
\* `with` block of the body's transaction.
RollbackRemove(e) ==
    /\ pc[e] = "r_remove"
    /\ \E fault \in BOOLEAN :
          LET r == RemoveMigration(nodes, edges, project[e], database[e],
                                   cur[e].version, fault)
          IN /\ nodes' = r.nodes
             /\ edges' = r.edges
             /\ IF r.outcome = "ok"
                   THEN /\ Log(e, "remove", cur[e].version)
                        /\ pc' = [pc EXCEPT ![e] = "r_commit"]
                        /\ UNCHANGED <<tx, result>>
                   ELSE Aborts(e, r.outcome, "remove", "remove_raised")
    /\ UNCHANGED <<constraint, target, conf, matched, call, analysis, todo, cur, calls>>

\* rollback, line 159: the `with` block of the transaction exits and commits it.
RollbackCommit(e) ==
    /\ pc[e] = "r_commit"
    /\ \E fails \in BOOLEAN :
          IF fails THEN Aborts(e, "Error", "commit", "commit_failed") /\ UNCHANGED target
          ELSE /\ target' = target \ {cur[e].version}
               /\ tx' = [tx EXCEPT ![e].open = FALSE]
               /\ Log(e, "commit", cur[e].version)
               /\ pc' = [pc EXCEPT ![e] = "r_loop"]
               /\ UNCHANGED result
    /\ UNCHANGED <<store, conf, matched, call, analysis, todo, cur, calls>>

\* ------------------------------------------------------------------ specification
Executors == DOMAIN pc

\* An analyze that creates the baseline of its scope when it finds none.
AnalyzeCall_CreatesBaseline(e) ==
    /\ pc[e] = "idle"
    /\ call' = [call EXCEPT ![e] = [op |-> "analyze", version |-> NoVersion,
                                    callback |-> FALSE]]
    /\ \E applied \in GetAppliedMigrations(nodes, edges, project[e], database[e]) :
          analysis' = [analysis EXCEPT ![e] = Analyze(local_migrations[e], applied)]
    /\ nodes' = IF BaselineRows(nodes, project[e], database[e]) # {} THEN nodes
                ELSE BaselineCreated(nodes, project[e], database[e])
    /\ Ends(e, "ok", "analyze")
    /\ trace' = [trace EXCEPT ![e] = <<>>]
    /\ todo' = [todo EXCEPT ![e] = <<>>]
    /\ cur' = [cur EXCEPT ![e] = NoMigration]
    /\ UNCHANGED <<edges, constraint, target, conf, matched, tx, calls>>

\* analyze(), lines 182-183: fetch the applied migrations and compare them with
\* the local ones.
AnalyzeCall(e) ==
    /\ pc[e] = "idle"
    /\ call' = [call EXCEPT ![e] = [op |-> "analyze", version |-> NoVersion,
                                    callback |-> FALSE]]
    /\ \E applied \in GetAppliedMigrations(nodes, edges, project[e], database[e]) :
          analysis' = [analysis EXCEPT ![e] = Analyze(local_migrations[e], applied)]
    /\ Ends(e, "ok", "analyze")
    /\ trace' = [trace EXCEPT ![e] = <<>>]
    /\ todo' = [todo EXCEPT ![e] = <<>>]
    /\ cur' = [cur EXCEPT ![e] = NoMigration]
    /\ UNCHANGED <<store, target, conf, matched, tx, calls>>

\* One executor on an empty store, with no project and no database given.
Init ==
    /\ nodes = {}
    /\ edges = {}
    /\ constraint = FALSE
    /\ target = {}
    /\ local_migrations \in [{1} -> LoadResults]
    /\ project = [e \in {1} |-> Null]
    /\ database = [e \in {1} |-> MigrationTarget(Null, SchemaDatabase(Null, Null))]
    /\ schema_database = [e \in {1} |-> SchemaDatabase(Null, Null)]
    /\ matched = [e \in {1} |-> {}]
    /\ pc = [e \in {1} |-> "idle"]
    /\ call = [e \in {1} |-> NoCall]
    /\ analysis = [e \in {1} |-> NoAnalysis]
    /\ todo = [e \in {1} |-> <<>>]
    /\ cur = [e \in {1} |-> NoMigration]
    /\ tx = [e \in {1} |-> NoTx]
    /\ trace = [e \in {1} |-> <<>>]
    /\ result = [e \in {1} |-> Outcome("none", "none")]
    /\ calls = 0

Next ==
    \/ \E e \in Executors : NewExecutor(e)
    \/ \E e \in Executors : MigrateCall(e)
    \/ \E e \in Executors : CreateBaselineMatch(e)
    \/ \E e \in Executors : CreateBaselineNode(e)
    \/ \E e \in Executors : CreateConstraints(e)
    \/ \E e \in Executors : MigrateSelect(e)
    \/ \E e \in Executors : MigrateReturn(e)
    \/ \E e \in Executors : MigrateDryRun(e)
    \/ \E e \in Executors : MigrateBegin(e)
    \/ \E e \in Executors : MigrateApply(e)
    \/ \E e \in Executors : MigrateOnApply(e)
    \/ \E e \in Executors : MigrateCommit(e)
    \/ \E e \in Executors : MigrateRecord(e)
    \/ \E e \in Executors : RollbackCall(e)
    \/ \E e \in Executors : RollbackReturn(e)
    \/ \E e \in Executors : RollbackBegin(e)
    \/ \E e \in Executors : RollbackBody(e)
    \/ \E e \in Executors : RollbackOnRollback(e)
    \/ \E e \in Executors : RollbackRemove(e)
    \/ \E e \in Executors : RollbackCommit(e)
    \/ \E e \in Executors : AnalyzeCall(e)
    \/ \E e \in Executors : Forget(e)

Spec == Init /\ [][Next]_vars

\* ------------------------------------------------------------------ the ledger alone
\* MigrationDAO objects used directly, one call after the other: every call runs
\* from its first statement to its return before the next one starts.
Scopes == {<<Null, Null>>, <<Default, Null>>, <<"shop", "graph">>}

\* The call a MigrationDAO has just returned from.
LedgerCall(op, version, dry_run) == [op |-> op, version |-> version, dry_run |-> dry_run]

\* The DAO e has made the call c, which ended with `outcome`.
Called(e, c, outcome) ==
    /\ call' = [d \in DOMAIN call |-> IF d = e THEN c ELSE NoCall]
    /\ result' = [d \in DOMAIN result |->
                    IF d = e THEN Outcome(outcome, c.op) ELSE Outcome("none", "none")]

\* dao.create_baseline()
DaoCreateBaseline(e) ==
    /\ BaselineRows(nodes, project[e], database[e]) # {} \/ Cardinality(nodes) < MaxNodes
    /\ nodes' = IF BaselineRows(nodes, project[e], database[e]) # {} THEN nodes
                ELSE BaselineCreated(nodes, project[e], database[e])
    /\ Called(e, LedgerCall("create_baseline", NoVersion, FALSE), "ok")
    /\ UNCHANGED <<edges, constraint, target, conf, matched, pc, analysis, todo, cur, tx,
                   trace, calls>>

\* dao.create_constraints()
DaoCreateConstraints(e) ==
    /\ constraint' = (constraint \/ ~ViolatesConstraint(nodes))
    /\ Called(e, LedgerCall("create_constraints", NoVersion, FALSE),
              IF ~constraint /\ ViolatesConstraint(nodes) THEN "Error" ELSE "ok")
    /\ UNCHANGED <<nodes, edges, target, conf, matched, pc, analysis, todo, cur, tx,
                   trace, calls>>

\* dao.add_migration(migration, duration, dry_run)
DaoAddMigration(e) ==
    /\ Cardinality(nodes) < MaxNodes
    /\ \E mig \in [version : Versions, checksum : {1}], dry_run, fault \in BOOLEAN :
          LET r == AddMigration(nodes, edges, constraint, project[e], database[e],
                                mig, dry_run, fault)
          IN /\ nodes' = r.nodes
             /\ edges' = r.edges
             /\ Called(e, LedgerCall("add_migration", mig.version, dry_run), r.outcome)
    /\ UNCHANGED <<constraint, target, conf, matched, pc, analysis, todo, cur, tx,
                   trace, calls>>

\* dao.remove_migration(version)
DaoRemoveMigration(e) ==
    /\ \E version \in Versions \cup {Baseline}, fault \in BOOLEAN :
          LET r == RemoveMigration(nodes, edges, project[e], database[e], version, fault)
          IN /\ nodes' = r.nodes
             /\ edges' = r.edges
             /\ Called(e, LedgerCall("remove_migration", version, FALSE), r.outcome)
    /\ UNCHANGED <<constraint, target, conf, matched, pc, analysis, todo, cur, tx,
                   trace, calls>>

\* Two MigrationDAO objects on an empty store: the first without project and
\* migration target, the second with one of Scopes.
InitLedger ==
    /\ nodes = {}
    /\ edges = {}
    /\ constraint = FALSE
    /\ target = {}
    /\ local_migrations = [e \in {1, 2} |-> <<>>]
    /\ \E scope \in Scopes :
          /\ project = [e \in {1, 2} |-> IF e = 1 THEN Null ELSE scope[1]]
          /\ database = [e \in {1, 2} |-> IF e = 1 THEN Null ELSE scope[2]]
    /\ schema_database = [e \in {1, 2} |-> Null]
    /\ matched = [e \in {1, 2} |-> {}]
    /\ pc = [e \in {1, 2} |-> "idle"]
    /\ call = [e \in {1, 2} |-> NoCall]
    /\ analysis = [e \in {1, 2} |-> NoAnalysis]
    /\ todo = [e \in {1, 2} |-> <<>>]
    /\ cur = [e \in {1, 2} |-> NoMigration]
    /\ tx = [e \in {1, 2} |-> NoTx]
    /\ trace = [e \in {1, 2} |-> <<>>]
    /\ result = [e \in {1, 2} |-> Outcome("none", "none")]
    /\ calls = 0

NextLedger ==
    \/ \E e \in Executors : DaoCreateBaseline(e)
    \/ \E e \in Executors : DaoCreateConstraints(e)
    \/ \E e \in Executors : DaoAddMigration(e)
    \/ \E e \in Executors : DaoRemoveMigration(e)

SpecLedger == InitLedger /\ [][NextLedger]_vars

\* ------------------------------------------------------------------ two executors
\* The transaction of add_migration seen from a second session: the MATCH reads
\* the nodes without successor (lines 106-113), and the CREATE and MERGE, the
\* check of the counters and the commit come later (lines 114-152). Nothing in
\* between keeps another transaction from committing.

\* add_migration from its CREATE on, for the nodes H its MATCH found: the graph
\* it leaves and whether it returned or raised. `fault` is an error of the
\* driver or of the store (a conflict it detects included).
AddMigrationOn(N, E, c, H, p, t, mig, fault) ==
    LET run == CreateAndLink(N, E, H, p, t, mig)
        nodes_created == Cardinality(run.nodes) - Cardinality(N)
        relationships_created == Cardinality(run.edges) - Cardinality(E)
    IN  IF fault \/ (c /\ ViolatesConstraint(run.nodes))
            THEN [nodes |-> N, edges |-> E, outcome |-> "Error"]
        ELSE IF CountersRejected(nodes_created, relationships_created)
            THEN [nodes |-> N, edges |-> E, outcome |-> "IntegrityError"]
        ELSE [nodes |-> run.nodes, edges |-> run.edges, outcome |-> "ok"]

\* migrate, line 101, add_migration lines 104-113: the MATCH of the query.
MigrateRecordMatch(e) ==
    /\ pc[e] = "record"
    /\ matched' = [matched EXCEPT ![e] = Heads(nodes, edges, project[e], database[e])]
    /\ pc' = [pc EXCEPT ![e] = "record_write"]
    /\ UNCHANGED <<store, target, conf, call, analysis, todo, cur, tx, trace, result, calls>>

\* migrate, line 101, add_migration lines 114-152: the writes of the query, the
\* check of the counters and the commit.
MigrateRecordWrite(e) ==
    /\ pc[e] = "record_write"
    /\ matched' = [matched EXCEPT ![e] = {}]
    /\ \E fault \in BOOLEAN :
          LET r == AddMigrationOn(nodes, edges, constraint, matched[e], project[e],
                                  database[e], cur[e], fault)
          IN /\ nodes' = r.nodes
             /\ edges' = r.edges
             /\ IF r.outcome = "ok"
                   THEN /\ Log(e, "append", cur[e].version)
                        /\ pc' = [pc EXCEPT ![e] = "loop"]
                        /\ UNCHANGED result
                   ELSE /\ Log(e, "append_raised", cur[e].version)
                        /\ Ends(e, r.outcome, "append")
    /\ UNCHANGED <<constraint, target, conf, call,
                   analysis, todo, cur, tx, calls>>

\* The migrations directory the two executors load: any set of versions.
RaceLoadResults == {s \in LoadResults : \A i \in 1..Len(s) : s[i].checksum = 1 /\ ~s[i].down}

\* Two executors with the same local migrations on an empty store, with no
\* project and no database given.
InitRace ==
    /\ nodes = {}
    /\ edges = {}
    /\ constraint = FALSE
    /\ target = {}
    /\ \E loaded \in RaceLoadResults : local_migrations = [e \in {1, 2} |-> loaded]
    /\ project = [e \in {1, 2} |-> Null]
    /\ database = [e \in {1, 2} |-> MigrationTarget(Null, SchemaDatabase(Null, Null))]
    /\ schema_database = [e \in {1, 2} |-> SchemaDatabase(Null, Null)]
    /\ matched = [e \in {1, 2} |-> {}]
    /\ pc = [e \in {1, 2} |-> "idle"]
    /\ call = [e \in {1, 2} |-> NoCall]
    /\ analysis = [e \in {1, 2} |-> NoAnalysis]
    /\ todo = [e \in {1, 2} |-> <<>>]
    /\ cur = [e \in {1, 2} |-> NoMigration]
    /\ tx = [e \in {1, 2} |-> NoTx]
    /\ trace = [e \in {1, 2} |-> <<>>]
    /\ result = [e \in {1, 2} |-> Outcome("none", "none")]
    /\ calls = 0

\* Each executor makes one migrate call; their steps interleave.
NextRace ==
    \/ \E e \in Executors : MigrateCall(e)
    \/ \E e \in Executors : CreateBaselineMatch(e)
    \/ \E e \in Executors : CreateBaselineNode(e)
    \/ \E e \in Executors : CreateConstraints(e)
    \/ \E e \in Executors : MigrateSelect(e)
    \/ \E e \in Executors : MigrateReturn(e)
    \/ \E e \in Executors : MigrateDryRun(e)
    \/ \E e \in Executors : MigrateBegin(e)
    \/ \E e \in Executors : MigrateApply(e)
    \/ \E e \in Executors : MigrateOnApply(e)
    \/ \E e \in Executors : MigrateCommit(e)
    \/ \E e \in Executors : MigrateRecordMatch(e)
    \/ \E e \in Executors : MigrateRecordWrite(e)

SpecRace == InitRace /\ [][NextRace]_vars

\* ------------------------------------------------------------------ properties
\* The ledger entries (other than baselines) of the scope of executor e.
Entries(e) ==
    {n \in nodes : n.version # Baseline /\ ScopeMatch(n, project[e], database[e])}

Recorded(e, version) == \E n \in Entries(e) : n.version = version

\* The versions met on the path that leaves node n, at most k relationships long.
RECURSIVE PathFrom(_, _)
PathFrom(n, k) ==
    IF k = 0 \/ Successors(n, nodes, edges) = {} THEN <<>>
    ELSE LET m == CHOOSE x \in Successors(n, nodes, edges) : TRUE
         IN <<m.version>> \o PathFrom(m, k - 1)

\* The scope of e holds exactly one baseline and one simple path from it through
\* every entry of the scope; Chain(e) lists the versions on that path.
Chain(e) ==
    LET b == CHOOSE x \in BaselineRows(nodes, project[e], database[e]) : TRUE
    IN PathFrom(b, Cardinality(nodes))

IsChain(e) ==
    /\ Cardinality(BaselineRows(nodes, project[e], database[e])) = 1
    /\ Len(Chain(e)) = Cardinality(Entries(e))
    /\ \A n \in nodes : Cardinality(Successors(n, nodes, edges)) <= 1

Happened(e, ev, version) == \E i \in 1..Len(trace[e]) : trace[e][i] = Event(ev, version)

Count(e, ev, version) == Cardinality({i \in 1..Len(trace[e]) : trace[e][i] = Event(ev, version)})

AppendEvents == {"dry_append", "dry_append_raised", "append", "append_raised"}
BodyEvents == {"begin", "apply", "apply_raised", "rollback", "rollback_raised",
               "not_implemented", "commit", "commit_failed", "abort"}
CallbackEvents == {"on_apply", "on_apply_raised", "on_rollback", "on_rollback_raised"}

InMigrate(e) == call[e].op = "migrate"
InRollback(e) == call[e].op = "rollback"
Returned(e) == pc[e] = "returned"

\* An applied entry of e's scope is missing locally or differs from its local
\* definition.
HasInvalidFinding(e) ==
    \E n \in Entries(e) :
        \/ n.version \notin VersionsOf(local_migrations[e])
        \/ \E i \in 1..Len(local_migrations[e]) :
              /\ local_migrations[e][i].version = n.version
              /\ local_migrations[e][i].checksum # n.checksum

\* C1: a migrate call made while an applied entry is drifted or missing locally
\* ends at once with a validation error, and the step changes neither the
\* ledger (no baseline, no constraint, no entry) nor the target store, and runs
\* no body, callback or append.
C1_InvalidBlocksMigrate ==
    [][\A e \in Executors :
          (pc[e] = "idle" /\ call'[e].op = "migrate" /\ HasInvalidFinding(e))
          => /\ pc'[e] = "returned"
             /\ result'[e] = Outcome("ValidationError", "analyze")
             /\ trace'[e] = <<>>
             /\ UNCHANGED <<nodes, edges, constraint, target, tx>>]_vars

C1_Witness ==
    \E e \in Executors :
        /\ Returned(e) /\ InMigrate(e)
        /\ result[e].status = "ValidationError"
        /\ HasInvalidFinding(e)
        /\ local_migrations[e] # <<>>

\* C2: when the analysis of a migrate call found no applied entry, the call
\* ensures the baseline and then the constraint before its first append, and the
\* baseline and the constraint exist whenever it appends; when a migrate() without
\* version returns normally from there, the scope is one baseline followed by the
\* local definitions in ascending order (V1 -> V2 -> V3) and nothing is pending.
C2_BaselineThenChain ==
    \A e \in Executors :
        (InMigrate(e) /\ analysis[e].applied = <<>>) =>
            /\ \A i \in 1..Len(trace[e]) :
                  trace[e][i].ev \in AppendEvents =>
                      /\ \E j, k \in 1..(i - 1) :
                            /\ j < k
                            /\ trace[e][j].ev = "create_baseline"
                            /\ trace[e][k].ev = "create_constraints"
                      /\ Cardinality(BaselineRows(nodes, project[e], database[e])) = 1
                      /\ constraint
            /\ (Returned(e) /\ result[e].status = "ok" /\ call[e].version = NoVersion) =>
                  /\ IsChain(e)
                  /\ Chain(e) = [i \in 1..Len(local_migrations[e]) |->
                                    local_migrations[e][i].version]
                  /\ \A i \in 1..Len(local_migrations[e]) :
                        Recorded(e, local_migrations[e][i].version)

C2_Witness ==
    \E e \in Executors :
        /\ Returned(e) /\ InMigrate(e) /\ result[e].status = "ok"
        /\ analysis[e].applied = <<>>
        /\ call[e].version = NoVersion
        /\ Chain(e) = << <<1>>, <<2>>, <<3>> >>

\* What may directly follow the event a in the trace of a migrate call with
\* (callback) or without an on_apply callback.
Follows(a, b, callback) ==
    LET same == a.version = b.version
    IN CASE a.ev = "create_baseline" -> b.ev = "create_constraints"
         [] a.ev = "create_constraints" -> b.ev \in {"dry_append", "dry_append_raised"}
         [] a.ev = "dry_append" -> same /\ b.ev = "begin"
         [] a.ev = "begin" -> same /\ b.ev \in {"apply", "apply_raised"}
         [] a.ev = "apply" ->
                same /\ IF callback THEN b.ev \in {"on_apply", "on_apply_raised"}
                        ELSE b.ev \in {"commit", "commit_failed"}
         [] a.ev = "on_apply" -> same /\ b.ev \in {"commit", "commit_failed"}
         [] a.ev = "commit" -> same /\ b.ev \in {"append", "append_raised"}
         [] a.ev = "append" ->
                /\ b.ev \in {"dry_append", "dry_append_raised"}
                /\ ListLess(a.version, b.version)
         [] a.ev \in {"apply_raised", "on_apply_raised", "commit_failed"} ->
                same /\ b.ev = "abort"
         [] OTHER -> FALSE

\* C3: in a migrate call the events of each migration are, in this order, the
\* dry-run append, the begin of the transaction, the forward body, on_apply (once,
\* when there is a callback), the commit and the recording append; the next
\* migration's dry-run append comes only after the recording append of the
\* previous one, and its version is higher.
C3_MigrateEventOrder ==
    \A e \in Executors :
        InMigrate(e) =>
            /\ \A i \in 1..(Len(trace[e]) - 1) :
                  Follows(trace[e][i], trace[e][i + 1], call[e].callback)
            /\ \A v \in Versions :
                  /\ Count(e, "on_apply", v) + Count(e, "on_apply_raised", v) <= 1
                  /\ Happened(e, "commit", v) /\ call[e].callback
                        => Count(e, "on_apply", v) = 1
                  /\ Happened(e, "on_apply", v) => cur[e].version = v \/ Happened(e, "append", v)

C3_Witness ==
    \E e \in Executors :
        /\ Returned(e) /\ InMigrate(e) /\ result[e].status = "ok"
        /\ call[e].callback
        /\ Happened(e, "append", <<1>>) /\ Happened(e, "append", <<2>>)
        /\ Count(e, "on_apply", <<2>>) = 1

\* The versions whose migration the call completed before the current one.
Completed(e) == {v \in Versions : v # cur[e].version /\ Happened(e, "dry_append", v)}

EarlierStay(e) ==
    \A v \in Completed(e) :
        /\ Happened(e, "commit", v) /\ Happened(e, "append", v)
        /\ v \in target
        /\ Recorded(e, v)

\* C4: when on_apply raises for a migration, the transaction of its forward body
\* is rolled back (the target store is as it was when the transaction began), the
\* ledger has no entry for it, and the migrations applied earlier in the call are
\* committed and recorded.
C4_OnApplyRaises ==
    \A e \in Executors :
        (Returned(e) /\ InMigrate(e) /\ result[e].step = "on_apply") =>
            /\ ~tx[e].open
            /\ target = tx[e].base
            /\ ~Happened(e, "commit", cur[e].version)
            /\ ~Recorded(e, cur[e].version)
            /\ EarlierStay(e)

C4_Witness ==
    \E e \in Executors :
        /\ Returned(e) /\ InMigrate(e) /\ result[e].step = "on_apply"
        /\ Happened(e, "on_apply_raised", cur[e].version)
        /\ Completed(e) # {}

DaoRaised(e) == Returned(e) /\ InMigrate(e) /\ result[e].step \in {"dry_append", "append"}

\* C5 as stated: when add_migration raises in a migrate call, in the dry-run call
\* or in the recording call, the forward body of that migration is not committed.
C5_DaoErrorNeverCommitted ==
    \A e \in Executors :
        DaoRaised(e) => ~Happened(e, "commit", cur[e].version)

\* C5 amended: when the dry-run add_migration raises, the forward body of that
\* migration is never run and nothing of it is committed; when the recording
\* add_migration raises, the body's transaction was committed before the call and
\* stays committed, and the ledger has no entry for the migration.
C5_DaoErrors ==
    \A e \in Executors :
        /\ (Returned(e) /\ InMigrate(e) /\ result[e].step = "dry_append") =>
              /\ \A ev \in BodyEvents \cup CallbackEvents :
                    ~Happened(e, ev, cur[e].version)
              /\ ~tx[e].open
              /\ ~Recorded(e, cur[e].version)
        /\ (Returned(e) /\ InMigrate(e) /\ result[e].step = "append") =>
              /\ Happened(e, "commit", cur[e].version)
              /\ cur[e].version \in target
              /\ ~tx[e].open
              /\ ~Recorded(e, cur[e].version)

C5_Witness ==
    \E e \in Executors :
        /\ DaoRaised(e)
        /\ result[e].step = "append"
        /\ Happened(e, "append_raised", cur[e].version)
        /\ cur[e].version \in target

RaisedEvents == {"dry_append_raised", "apply_raised", "on_apply_raised",
                 "commit_failed", "append_raised"}

MigrateFailed(e) ==
    /\ Returned(e) /\ InMigrate(e)
    /\ result[e].step \in {"dry_append", "apply", "on_apply", "commit", "append"}

\* C6: when a step of a selected migration fails in a migrate call, the only
\* transaction rolled back is that migration's, nothing happens after the failure
\* but that rollback, the migrations after it in the selection are never started
\* (no event, no ledger entry), and the migrations before it are committed in the
\* target store and recorded in the ledger.
C6_FailureIsLocal ==
    \A e \in Executors :
        InMigrate(e) =>
            /\ \A i, j \in 1..Len(trace[e]) :
                  (i < j /\ trace[e][i].ev \in RaisedEvents) =>
                      trace[e][j] = Event("abort", trace[e][i].version)
            /\ \A i \in 1..Len(trace[e]) :
                  trace[e][i].ev \in RaisedEvents \cup {"abort"} => Returned(e)
            /\ MigrateFailed(e) =>
                  /\ \A i \in 1..Len(trace[e]) :
                        trace[e][i].ev \in RaisedEvents \cup {"abort"} =>
                            trace[e][i].version = cur[e].version
                  /\ \A i \in 1..Len(todo[e]) :
                        /\ \A j \in 1..Len(trace[e]) : trace[e][j].version # todo[e][i].version
                        /\ ~Recorded(e, todo[e][i].version)
                  /\ EarlierStay(e)
                  /\ ~tx[e].open

C6_Witness ==
    \E e \in Executors :
        /\ MigrateFailed(e)
        /\ result[e].step = "commit"
        /\ Completed(e) # {}
        /\ todo[e] # <<>>

\* The local definitions that were not applied when the call fetched the ledger.
PendingAtStart(e) ==
    LET NotApplied(d) == d.version \notin VersionsOf(analysis[e].applied)
    IN SelectSeq(local_migrations[e], NotApplied)

\* The versions of the events ev in the trace, in order.
VersionsLogged(e, ev) ==
    LET Is(x) == x.ev = ev
        s == SelectSeq(trace[e], Is)
    IN [i \in 1..Len(s) |-> s[i].version]

\* C7: a migrate(version=t) call that passed the validation and returns normally
\* has appended exactly the migrations pending at its start up to and including
\* t, in ascending order, and no later one; when t is not among them the call
\* ends with not-found, having run no body and no append, the entries of the
\* ledger being those it fetched.
C7_MigrateToVersion ==
    \A e \in Executors :
        (InMigrate(e) /\ call[e].version # NoVersion /\ ~HasInvalidFinding(e)) =>
            LET P == PendingAtStart(e)
                t == call[e].version
            IN /\ (Returned(e) /\ result[e].status = "ok") =>
                    /\ t \in VersionsOf(P)
                    /\ \E k \in 1..Len(P) :
                          /\ P[k].version = t
                          /\ VersionsLogged(e, "append") = [i \in 1..k |-> P[i].version]
                          /\ VersionsLogged(e, "commit") = [i \in 1..k |-> P[i].version]
                          /\ \A i \in 1..k : Recorded(e, P[i].version)
                          /\ \A i \in (k + 1)..Len(P) :
                                /\ ~Recorded(e, P[i].version)
                                /\ \A j \in 1..Len(trace[e]) : trace[e][j].version # P[i].version
               /\ t \notin VersionsOf(P) =>
                    /\ \A i \in 1..Len(trace[e]) :
                          trace[e][i].ev \notin AppendEvents \cup BodyEvents \cup CallbackEvents
                    /\ {n.version : n \in Entries(e)} = VersionsOf(analysis[e].applied)
                    /\ Returned(e) => result[e] = Outcome("NotFound", "select")

C7_Witness ==
    \E e \in Executors :
        /\ Returned(e) /\ InMigrate(e) /\ result[e].status = "ok"
        /\ call[e].version = <<2>>
        /\ VersionsLogged(e, "append") = << <<1>>, <<2>> >>
        /\ Len(PendingAtStart(e)) = 3
        /\ ~Recorded(e, <<3>>)

C7_WitnessNotFound ==
    \E e \in Executors :
        /\ Returned(e) /\ InMigrate(e) /\ result[e].status = "NotFound"
        /\ Recorded(e, call[e].version)

\* C8 as stated: rollback() without version removes one entry, the one last
\* appended to the chain (its head), and leaves every other entry in place.
C8_RollbackRemovesHead ==
    [][\A e \in Executors :
          (InRollback(e) /\ call[e].version = NoVersion /\ nodes' # nodes) =>
              nodes' = nodes \ Heads(nodes, edges, project[e], database[e])]_vars

\* C9: in a rollback(version=t) call with t applied, with A the applied list the
\* call fetched: the backward bodies run and the ledger removals happen for the
\* entries of A with a version above t, highest first and without gaps; no
\* event concerns t or a lower version; and when the call returns normally the
\* ledger holds exactly the entries of A up to t.
C9_RollbackToVersion ==
    \A e \in Executors :
        (InRollback(e) /\ call[e].version \in VersionsOf(analysis[e].applied)) =>
            LET t == call[e].version
                After == {v \in VersionsOf(analysis[e].applied) : ListLess(t, v)}
                HighestFirst(s) ==
                    \A i \in 1..Len(s) :
                        /\ s[i] \in After
                        /\ \A w \in After :
                              ListLess(s[i], w) => \E j \in 1..(i - 1) : s[j] = w
            IN /\ HighestFirst(VersionsLogged(e, "remove"))
               /\ HighestFirst(VersionsLogged(e, "rollback"))
               /\ \A i \in 1..Len(trace[e]) : trace[e][i].version \in After
               /\ (Returned(e) /\ result[e].status = "ok") =>
                     /\ SeqToSet(VersionsLogged(e, "remove")) = After
                     /\ SeqToSet(VersionsLogged(e, "rollback")) = After
                     /\ {n.version : n \in Entries(e)} =
                            VersionsOf(analysis[e].applied) \ After

C9_Witness ==
    \E e \in Executors :
        /\ Returned(e) /\ InRollback(e) /\ result[e].status = "ok"
        /\ call[e].version = <<1>>
        /\ VersionsLogged(e, "remove") = << <<3>>, <<2>> >>
        /\ VersionsLogged(e, "rollback") = << <<3>>, <<2>> >>
        /\ Chain(e) = << <<1>> >>

\* C10 as stated: for each entry rolled back the transaction is opened, the
\* backward body runs, on_rollback is invoked once, the transaction is committed,
\* and only then the ledger entry is removed.
C10_RemoveAfterCommit ==
    \A e \in Executors :
        InRollback(e) =>
            \A i \in 1..Len(trace[e]) :
                trace[e][i].ev = "remove" =>
                    \E j \in 1..(i - 1) : trace[e][j] = Event("commit", trace[e][i].version)

\* The entries of the selection the rollback call has not started: no event
\* concerns them and their ledger entries are in place.
RestUntouched(e) ==
    \A i \in 1..Len(todo[e]) :
        /\ \A j \in 1..Len(trace[e]) : trace[e][j].version # todo[e][i].version
        /\ Recorded(e, todo[e][i].version)

\* The entries the rollback call went through before the current one: their
\* backward body ran and was committed, and their ledger entry is removed.
EarlierRolledBack(e) ==
    \A v \in Versions :
        (v # cur[e].version /\ Happened(e, "begin", v)) =>
            /\ Happened(e, "rollback", v)
            /\ Happened(e, "remove", v)
            /\ Happened(e, "commit", v)
            /\ v \notin target
            /\ ~Recorded(e, v)

HasDown(e, version) == LocalMigration(local_migrations[e], version).down

\* C11: when the local definition of the entry a rollback call is at has no
\* backward body, the call ends with the unsupported-operation error at that
\* entry: no backward body and no callback ran for it, its transaction is rolled
\* back, its ledger entry is in place, and so is that of every entry of the
\* selection still to come, for which nothing has happened. A call that ends
\* with that error for another reason (a NotImplementedError of the body or of
\* the callback) has removed and committed nothing for the entry either.
C11_NoBackwardBody ==
    \A e \in Executors :
        /\ (InRollback(e) /\ Happened(e, "begin", cur[e].version)
               /\ ~HasDown(e, cur[e].version) /\ pc[e] # "r_rollback") =>
              /\ Returned(e)
              /\ result[e] = Outcome("UnsupportedOperation", "rollback")
              /\ Happened(e, "not_implemented", cur[e].version)
              /\ \A ev \in {"rollback", "rollback_raised", "on_rollback",
                              "on_rollback_raised", "remove", "remove_raised", "commit"} :
                    ~Happened(e, ev, cur[e].version)
        /\ (Returned(e) /\ InRollback(e) /\ result[e].status = "UnsupportedOperation") =>
              /\ \A ev \in {"remove", "remove_raised", "commit"} :
                    ~Happened(e, ev, cur[e].version)
              /\ ~tx[e].open
              /\ target = tx[e].base
              /\ Recorded(e, cur[e].version)
              /\ RestUntouched(e)

C11_Witness ==
    \E e \in Executors :
        /\ Returned(e) /\ InRollback(e)
        /\ result[e].status = "UnsupportedOperation"
        /\ Happened(e, "not_implemented", cur[e].version)
        /\ todo[e] # <<>>

\* C12: when the backward body or on_rollback raises for an entry, that entry's
\* transaction is rolled back (the target store is as it was when it began), its
\* ledger entry is not removed, the entries of the selection still to come are not
\* started, and the entries the call rolled back before stay rolled back.
C12_RollbackFailureIsLocal ==
    \A e \in Executors :
        /\ InRollback(e) =>
              \A i, j \in 1..Len(trace[e]) :
                  (i < j /\ trace[e][i].ev \in {"rollback_raised", "on_rollback_raised"}) =>
                      /\ trace[e][j] = Event("abort", trace[e][i].version)
                      /\ Returned(e)
        /\ (Returned(e) /\ InRollback(e)
               /\ \/ Happened(e, "rollback_raised", cur[e].version)
                  \/ Happened(e, "on_rollback_raised", cur[e].version)) =>
              /\ result[e].status \in {"Error", "UnsupportedOperation"}
              /\ result[e].step \in {"rollback", "on_rollback"}
              /\ ~tx[e].open
              /\ target = tx[e].base
              /\ ~Happened(e, "remove", cur[e].version)
              /\ ~Happened(e, "commit", cur[e].version)
              /\ Recorded(e, cur[e].version)
              /\ RestUntouched(e)
              /\ EarlierRolledBack(e)

C12_Witness ==
    \E e \in Executors :
        /\ Returned(e) /\ InRollback(e)
        /\ result[e] = Outcome("Error", "on_rollback")
        /\ Happened(e, "on_rollback_raised", cur[e].version)
        /\ \E v \in Versions : v # cur[e].version /\ Happened(e, "remove", v)

C12_WitnessBody ==
    \E e \in Executors :
        /\ Returned(e) /\ InRollback(e)
        /\ result[e] = Outcome("Error", "rollback")
        /\ Happened(e, "rollback_raised", cur[e].version)

\* The callback raised NotImplementedError for an entry that has a backward
\* body, after another entry was rolled back.
C12_WitnessCallbackNotImplemented ==
    \E e \in Executors :
        /\ Returned(e) /\ InRollback(e)
        /\ result[e] = Outcome("UnsupportedOperation", "on_rollback")
        /\ HasDown(e, cur[e].version)
        /\ Happened(e, "on_rollback_raised", cur[e].version)
        /\ \E v \in Versions : v # cur[e].version /\ Happened(e, "remove", v)

\* The backward body raised NotImplementedError.
C12_WitnessBodyNotImplemented ==
    \E e \in Executors :
        /\ Returned(e) /\ InRollback(e)
        /\ result[e] = Outcome("UnsupportedOperation", "rollback")
        /\ HasDown(e, cur[e].version)
        /\ Happened(e, "rollback_raised", cur[e].version)

\* C13: a rollback call on a scope without applied entry (an empty store, or the
\* baseline alone) ends at once with the validation error; the step runs no
\* backward body and no callback and changes neither the ledger nor the target
\* store.
C13_NothingToRollback ==
    [][\A e \in Executors :
          (pc[e] = "idle" /\ call'[e].op = "rollback" /\ Entries(e) = {})
          => /\ pc'[e] = "returned"
             /\ result'[e] = Outcome("ValidationError", "fetch")
             /\ trace'[e] = <<>>
             /\ UNCHANGED <<nodes, edges, constraint, target, tx>>]_vars

C13_Witness ==
    \E e \in Executors :
        /\ Returned(e) /\ InRollback(e)
        /\ result[e].status = "ValidationError"
        /\ BaselineRows(nodes, project[e], database[e]) # {}
        /\ Entries(e) = {}
        /\ local_migrations[e] # <<>>

\* C14: a rollback(version=t) call on a scope with applied entries none of which
\* has the version t ends at once with the not-found error; the step runs no
\* backward body and removes no ledger entry.
C14_RollbackVersionNotApplied ==
    [][\A e \in Executors :
          (/\ pc[e] = "idle" /\ call'[e].op = "rollback"
           /\ call'[e].version # NoVersion
           /\ Entries(e) # {}
           /\ ~Recorded(e, call'[e].version))
          => /\ pc'[e] = "returned"
             /\ result'[e] = Outcome("NotFound", "select")
             /\ trace'[e] = <<>>
             /\ UNCHANGED <<nodes, edges, constraint, target, tx>>]_vars

C14_Witness ==
    \E e \in Executors :
        /\ Returned(e) /\ InRollback(e)
        /\ result[e] = Outcome("NotFound", "select")
        /\ call[e].version \in VersionsOf(local_migrations[e])
        /\ Cardinality(Entries(e)) >= 2

\* C15: when the entry a rollback call comes to has no local definition of its
\* version, the call ends there with the not-found error: no transaction was
\* begun for the entry, no backward body or callback ran for it, its ledger entry
\* is in place, and the entries of the selection still to come are not started.
C15_LocalDefinitionMissing ==
    \A e \in Executors :
        /\ (InRollback(e) /\ cur[e].version # NoVersion
               /\ cur[e].version \notin VersionsOf(local_migrations[e])) =>
              /\ Returned(e)
              /\ result[e] = Outcome("NotFound", "local")
        /\ (Returned(e) /\ InRollback(e) /\ result[e].step = "local") =>
              /\ cur[e].version \notin VersionsOf(local_migrations[e])
              /\ \A i \in 1..Len(trace[e]) : trace[e][i].version # cur[e].version
              /\ ~tx[e].open
              /\ Recorded(e, cur[e].version)
              /\ RestUntouched(e)
              /\ EarlierRolledBack(e)

C15_Witness ==
    \E e \in Executors :
        /\ Returned(e) /\ InRollback(e)
        /\ result[e] = Outcome("NotFound", "local")
        /\ todo[e] # <<>>
        /\ local_migrations[e] # <<>>

\* The nodes of the scope of e, the baseline included.
ScopeNodes(e) == {n \in nodes : ScopeMatch(n, project[e], database[e])}

Predecessors(n, N, E) == {m \in N : <<m.id, n.id>> \in E}

\* The scope of e is empty, or it is one baseline without predecessor and one
\* simple path from it through every entry of the scope.
SinglePath(e) ==
    LET B == BaselineRows(nodes, project[e], database[e])
    IN /\ Cardinality(B) <= 1
       /\ B = {} => ScopeNodes(e) = {}
       /\ B # {} => IsChain(e)
       /\ \A b \in B : Predecessors(b, nodes, edges) = {}
       /\ \A n \in ScopeNodes(e) :
             /\ Cardinality(Successors(n, nodes, edges)) <= 1
             /\ Cardinality(Predecessors(n, nodes, edges)) <= 1
             /\ Successors(n, nodes, edges) \subseteq ScopeNodes(e)
             /\ n \notin ReachFrom(Successors(n, nodes, edges), nodes, edges)
       /\ \A n \in Entries(e) :
             \E b \in B : n \in ReachFrom(Successors(b, nodes, edges), nodes, edges)

SinglePaths ==
    /\ \A e \in Executors : SinglePath(e)
    /\ \A r \in edges : r[1] \in Ids(nodes) /\ r[2] \in Ids(nodes)

BaselineStays == \A n \in nodes : n.version = Baseline => n \in nodes'

\* C16: whatever create_baseline, add_migration and remove_migration calls were
\* made one after the other, the entries of a scope form one simple path that
\* starts at the scope's baseline: no node has two successors or two
\* predecessors, no node is on a cycle, every entry is reachable from the
\* baseline, the baseline has no predecessor, and no step removes a baseline.
C16_SinglePath == [](SinglePaths) /\ [][BaselineStays]_vars

C16_Witness ==
    \E e \in Executors :
        /\ call[e].op = "remove_migration" /\ result[e].status = "ok"
        /\ Len(Chain(e)) = 2
        /\ call[e].version \notin SeqToSet(Chain(e))
        /\ ListLess(Chain(e)[1], call[e].version)
        /\ ListLess(call[e].version, Chain(e)[2])

\* C17 as stated: no two nodes of the store have the same version, project and
\* migration target, a project or target that is absent counting as a value.
C17_UniqueTriple ==
    \A a, b \in nodes :
        a.id # b.id =>
            <<a.version, a.project, a.migrationTarget>>
                # <<b.version, b.project, b.migrationTarget>>

\* C19: an add_migration call without dry_run that returns has found one head
\* in its scope and has created one node, with the version of the migration,
\* and one relationship, from that head to the new node; the new node is then
\* the only head of the scope.
C19_AppendCreatesOne ==
    [][\A e \in Executors :
          (/\ call'[e].op = "add_migration" /\ ~call'[e].dry_run
           /\ result'[e].status = "ok")
          => \E h \in nodes, new \in nodes' :
                /\ Heads(nodes, edges, project[e], database[e]) = {h}
                /\ new \notin nodes
                /\ new.id \notin Ids(nodes)
                /\ new.version = call'[e].version
                /\ nodes' = nodes \cup {new}
                /\ edges' = edges \cup {<<h.id, new.id>>}
                /\ <<h.id, new.id>> \notin edges
                /\ Heads(nodes', edges', project[e], database[e]) = {new}]_vars

C19_Witness ==
    \E e \in Executors :
        /\ call[e].op = "add_migration" /\ ~call[e].dry_run
        /\ result[e].status = "ok"
        /\ Len(Chain(e)) = 3
        /\ Chain(e)[3] = call[e].version

\* C18 as stated: however the add_migration transactions of two executors on one
\* scope interleave, of two that matched the same head at most one commits, so
\* that no node ever has two successors.
C18_NoForkedHead ==
    \A n \in nodes : Cardinality(Successors(n, nodes, edges)) <= 1

\* What an add_migration of e whose query matched the nodes H must have done
\* when H is not a single node: raised, at the step given, and left the nodes and
\* relationships of the store as they were.
RejectedAt(e, H, step) ==
    Cardinality(H) # 1 =>
        /\ pc'[e] = "returned"
        /\ result'[e].step = step
        /\ result'[e].status \in {"IntegrityError", "Error"}
        /\ UNCHANGED <<nodes, edges>>

\* C20: an add_migration whose query creates a number of nodes or of
\* relationships other than one (it matched no head, or several) raises, and the
\* store keeps no node and no relationship of the call; this for the dry-run
\* call and the recording call of migrate and for a call made on the DAO itself.
C20_CountersChecked ==
    [][\A e \in Executors :
          /\ (pc[e] = "loop" /\ todo[e] # <<>> /\ pc'[e] # "loop") =>
                RejectedAt(e, Heads(nodes, edges, project[e], database[e]), "dry_append")
          /\ (pc[e] = "record_write" /\ pc'[e] # "record_write") =>
                RejectedAt(e, matched[e], "append")
          /\ (call'[e].op = "add_migration"
                 /\ Cardinality(Heads(nodes, edges, project[e], database[e])) # 1) =>
                /\ result'[e].status \in {"IntegrityError", "Error"}
                /\ UNCHANGED <<nodes, edges>>
          /\ (result'[e].status = "IntegrityError" /\ result[e].status # "IntegrityError") =>
                UNCHANGED <<nodes, edges>>]_vars

C20_Witness ==
    \E e \in Executors :
        /\ Returned(e) /\ InMigrate(e)
        /\ result[e] = Outcome("IntegrityError", "append")
        /\ Cardinality(Heads(nodes, edges, project[e], database[e])) = 2
        /\ cur[e].version \in target
        /\ ~Recorded(e, cur[e].version)

\* C21: an add_migration call with dry_run leaves the nodes and relationships
\* of the store exactly as they were, whether it returns or raises; this for a
\* call made on the DAO itself and for the dry-run call of migrate.
C21_DryRunLeavesLedger ==
    [][\A e \in Executors :
          /\ (call'[e].op = "add_migration" /\ call'[e].dry_run) =>
                UNCHANGED <<nodes, edges, constraint>>
          /\ (call[e].op = "migrate" /\ pc[e] = "loop" /\ todo[e] # <<>>
                 /\ pc'[e] # "loop") =>
                UNCHANGED <<nodes, edges, constraint>>]_vars

C21_Witness ==
    \E e \in Executors :
        /\ call[e].op = "add_migration" /\ call[e].dry_run
        /\ result[e].status = "ok"
        /\ Len(Chain(e)) = 2
        /\ ~Recorded(e, call[e].version)

\* The list s with x put in after its first k elements.
InsertAt(s, k, x) == SubSeq(s, 1, k) \o <<x>> \o SubSeq(s, k + 1, Len(s))

\* The entries of the scope of e that a path from the scope's baseline reaches.
ReachableEntries(e) ==
    {n \in Entries(e) :
        \E b \in BaselineRows(nodes, project[e], database[e]) :
            n \in ReachFrom(Successors(b, nodes, edges), nodes, edges)}

Fetched(e) == GetAppliedMigrations(nodes, edges, project[e], database[e])

\* The list s holds the migrations of the nodes S, each once, ascending by
\* version, the versions compared as lists of integers.
ListsAscending(s, S) ==
    /\ Len(s) = Cardinality(S)
    /\ \A n \in S :
          Cardinality({i \in 1..Len(s) : s[i] = FromDict(n)})
              = Cardinality({m \in S : FromDict(m) = FromDict(n)})
    /\ \A i, j \in 1..Len(s) : i < j => ~ListLess(s[j].version, s[i].version)

\* C22: get_applied_migrations returns the entries of the scope reachable from
\* its baseline, and no baseline, ascending by version with the components
\* compared as integers; and after an add_migration without dry_run that
\* returned, it returns what it returned before with the new migration put in at
\* the place its version has in that order.
C22_FetchApplied ==
    /\ [](\A e \in Executors : \A s \in Fetched(e) : ListsAscending(s, ReachableEntries(e)))
    /\ [][\A e \in Executors :
            (/\ call'[e].op = "add_migration" /\ ~call'[e].dry_run
             /\ result'[e].status = "ok") =>
                \A after \in GetAppliedMigrations(nodes', edges', project[e], database[e]) :
                    \E before \in Fetched(e), k \in 0..Cardinality(nodes) :
                        /\ k <= Len(before)
                        /\ after = InsertAt(before, k, after[k + 1])
                        /\ after[k + 1].version = call'[e].version
                        /\ \A i \in 1..k :
                              ~ListLess(call'[e].version, before[i].version)
                        /\ \A i \in (k + 1)..Len(before) :
                              ~ListLess(before[i].version, call'[e].version)]_vars

C22_Witness ==
    \E e \in Executors :
        /\ call[e].op = "add_migration" /\ ~call[e].dry_run
        /\ result[e].status = "ok"
        /\ Chain(e) = << <<3>>, <<1>>, <<2>> >>
        /\ \A s \in Fetched(e) :
              [i \in 1..Len(s) |-> s[i].version] = << <<1>>, <<2>>, <<3>> >>

\* The identities of the nodes met on the path that leaves node n in the graph
\* (N, E), at most k relationships long.
RECURSIVE PathIds(_, _, _, _)
PathIds(n, k, N, E) ==
    IF k = 0 \/ Successors(n, N, E) = {} THEN <<>>
    ELSE LET m == CHOOSE x \in Successors(n, N, E) : TRUE
         IN <<m.id>> \o PathIds(m, k - 1, N, E)

\* The identities of the entries on the path from the baseline of the scope
\* (p, t) in the graph (N, E), in the order of the path.
ChainIds(N, E, p, t) ==
    IF BaselineRows(N, p, t) = {} THEN <<>>
    ELSE PathIds(CHOOSE b \in BaselineRows(N, p, t) : TRUE, Cardinality(N), N, E)

RemoveAt(s, k) == SubSeq(s, 1, k - 1) \o SubSeq(s, k + 1, Len(s))

\* C23: a remove_migration(version) call that returned has deleted one node, the
\* entry of that version of its scope, and nothing else: the path from the
\* baseline is the path of before without that entry, the other entries in the
\* order they had, the node before the entry is linked to the node after it when
\* there was one, no other relationship was created and only those of the entry
\* were deleted; when the entry was the only one, the baseline is left alone.
C23_RemoveDeletesOne ==
    [][\A e \in Executors :
          (call'[e].op = "remove_migration" /\ result'[e].status = "ok") =>
              LET before == ChainIds(nodes, edges, project[e], database[e])
                  after == ChainIds(nodes', edges', project[e], database[e])
              IN \E g \in nodes, k \in 1..Cardinality(nodes) :
                    /\ k <= Len(before)
                    /\ before[k] = g.id
                    /\ g.version = call'[e].version
                    /\ g \in Entries(e)
                    /\ nodes' = nodes \ {g}
                    /\ after = RemoveAt(before, k)
                    /\ Len(after) = Len(before) - 1
                    /\ Len(after) = Cardinality({n \in nodes' : n.version # Baseline
                                      /\ ScopeMatch(n, project[e], database[e])})
                    /\ edges' = {r \in edges : r[1] # g.id /\ r[2] # g.id}
                                  \cup {<<a.id, b.id>> : a \in Predecessors(g, nodes, edges),
                                                         b \in Successors(g, nodes, edges)}
                    /\ k < Len(before) =>
                          \E a \in Predecessors(g, nodes, edges) :
                              /\ k > 1 => a.id = before[k - 1]
                              /\ k = 1 => a \in BaselineRows(nodes, project[e], database[e])
                              /\ <<a.id, before[k + 1]>> \in edges' \ edges
                    /\ Len(before) = 1 =>
                          /\ {n \in nodes' : ScopeMatch(n, project[e], database[e])}
                                = BaselineRows(nodes, project[e], database[e])
                          /\ \A b \in BaselineRows(nodes, project[e], database[e]) :
                                Successors(b, nodes', edges') = {}]_vars

\* An entry between two others was removed: the store holds the baseline and
\* the entries created second and fourth, linked to each other.
C23_Witness ==
    \E e \in Executors :
        /\ call[e].op = "remove_migration" /\ result[e].status = "ok"
        /\ Ids(nodes) = {0, 1, 3}
        /\ ChainIds(nodes, edges, project[e], database[e]) = <<1, 3>>
        /\ call[e].version \notin SeqToSet(Chain(e))

\* The only entry of a scope was removed: the baseline is left.
C23_WitnessSole ==
    \E e \in Executors :
        /\ call[e].op = "remove_migration" /\ result[e].status = "ok"
        /\ BaselineRows(nodes, project[e], database[e]) # {}
        /\ Entries(e) = {}
        /\ Cardinality(nodes) = 1

\* The entries of the scope of e with the given version that have a predecessor.
RemovableEntries(e, version) ==
    {n \in Entries(e) : n.version = version /\ Predecessors(n, nodes, edges) # {}}

\* C24: a remove_migration(version) call raises the not-found error when its
\* scope has no entry of that version with a predecessor, and the integrity
\* error when its deletion removed another number of nodes than one; a call that
\* raised, with either error or with an error of the driver, has left every node
\* and every relationship of the store as it was.
C24_RemoveFailureKeepsLedger ==
    [][\A e \in Executors :
          call'[e].op = "remove_migration" =>
              /\ RemovableEntries(e, call'[e].version) = {}
                    => result'[e].status \in {"NotFound", "Error"}
              /\ result'[e].status = "NotFound"
                    => RemovableEntries(e, call'[e].version) = {}
              /\ Cardinality(RemovableEntries(e, call'[e].version)) > 1
                    => result'[e].status \in {"IntegrityError", "Error"}
              /\ result'[e].status = "IntegrityError"
                    => Cardinality(RemovableEntries(e, call'[e].version)) > 1
              /\ result'[e].status # "ok" => UNCHANGED <<nodes, edges>>]_vars

\* The integrity error: two entries of the called version are in the scope.
C24_Witness ==
    \E e \in Executors :
        /\ call[e].op = "remove_migration"
        /\ result[e].status = "IntegrityError"
        /\ Cardinality(RemovableEntries(e, call[e].version)) = 2

\* The not-found error for a version that is not in a scope with entries.
C24_WitnessNotFound ==
    \E e \in Executors :
        /\ call[e].op = "remove_migration"
        /\ result[e].status = "NotFound"
        /\ Entries(e) # {}
        /\ call[e].version \in Versions

\* The baselines whose project and migration target are those of e, an absent
\* one being equal to an absent one only.
OwnBaselines(N, e) ==
    {n \in N : n.version = Baseline /\ n.project = project[e]
                  /\ n.migrationTarget = database[e]}

\* C25 as stated: after a create_baseline call the store holds one baseline
\* with the project and migration target of the caller; a call that finds such
\* a baseline changes nothing; a call that finds none creates one, whatever
\* baselines of other scopes there are.
C25_BaselineOnce ==
    [][\A e \in Executors :
          call'[e].op = "create_baseline" =>
              /\ Cardinality(OwnBaselines(nodes', e)) = 1
              /\ OwnBaselines(nodes, e) # {} => nodes' = nodes
              /\ OwnBaselines(nodes, e) = {} => nodes' # nodes
              /\ edges' = edges]_vars

\* What create_baseline does keep: after a call the store holds one baseline
\* that the scope condition of the queries accepts for the caller, a call that
\* finds one changes nothing, and a call that finds none adds one node, the
\* baseline of the caller.
BaselineOncePerMatch ==
    [][\A e \in Executors :
          call'[e].op = "create_baseline" =>
              /\ Cardinality(BaselineRows(nodes', project[e], database[e])) = 1
              /\ BaselineRows(nodes, project[e], database[e]) # {} => nodes' = nodes
              /\ BaselineRows(nodes, project[e], database[e]) = {} =>
                    /\ nodes \subseteq nodes'
                    /\ nodes' \ nodes = OwnBaselines(nodes', e)
              /\ edges' = edges]_vars

\* The node n has the project and the migration target of e, an absent one
\* being equal to an absent one only.
OwnNode(n, e) == n.project = project[e] /\ n.migrationTarget = database[e]

\* C26 as stated: get_applied_migrations reads nodes of the caller's scope
\* only, and a create_baseline, add_migration or remove_migration call creates
\* and deletes nodes of the caller's scope only and creates and deletes
\* relationships between nodes of the caller's scope only, an absent project or
\* target being no explicit value.
C26_ScopeIsolation ==
    /\ [](\A e \in Executors :
            \A r \in AppliedRows(nodes, edges, project[e], database[e]) :
                OwnNode(r[1], e) /\ OwnNode(r[2], e))
    /\ [][\A e \in Executors :
            call'[e].op \in {"create_baseline", "add_migration", "remove_migration"} =>
                /\ \A n \in (nodes' \ nodes) \cup (nodes \ nodes') : OwnNode(n, e)
                /\ \A r \in (edges' \ edges) \cup (edges \ edges') :
                      \A n \in nodes \cup nodes' :
                          n.id \in {r[1], r[2]} => OwnNode(n, e)]_vars

\* C27: an analyze call changes no node, no relationship and no constraint of
\* the ledger and nothing in the target store, and what it returns is the
\* comparison of the executor's local migrations with the applied migrations
\* of the store as it is: a second call on the same store returns the same.
C27_AnalyzeReadsOnly ==
    /\ [][\A e \in Executors :
            call'[e].op = "analyze" /\ pc[e] = "idle" =>
                /\ UNCHANGED <<nodes, edges, constraint, target, local_migrations>>
                /\ pc'[e] = "returned"
                /\ result'[e] = Outcome("ok", "analyze")]_vars
    /\ [](\A e \in Executors :
            (Returned(e) /\ call[e].op = "analyze") =>
                \A applied \in GetAppliedMigrations(nodes, edges, project[e], database[e]) :
                    analysis[e] = Analyze(local_migrations[e], applied))

C27_Witness ==
    \E e \in Executors :
        /\ Returned(e) /\ call[e].op = "analyze"
        /\ result[e] = Outcome("ok", "analyze")
        /\ analysis[e].applied # <<>>
        /\ analysis[e].pending_migrations # <<>>
        /\ analysis[e].invalid_versions # <<>>

\* The steps of migrate and rollback inside the `with` block of a transaction.
InTransaction(e) ==
    pc[e] \in {"apply", "on_apply", "commit",
               "r_rollback", "r_on_rollback", "r_remove", "r_commit"}

\* Every transaction the call of e began so far was committed or rolled back,
\* except the last one when `open` says so.
Released(e, open) ==
    LET begun == {i \in 1..Len(trace[e]) : trace[e][i].ev = "begin"}
        ended == {i \in 1..Len(trace[e]) : trace[e][i].ev \in {"commit", "abort"}}
    IN /\ Cardinality(begun) = Cardinality(ended) + (IF open THEN 1 ELSE 0)
       /\ \A i \in begun :
             \/ open /\ \A j \in begun : j <= i
             \/ \E j \in ended :
                   /\ i < j
                   /\ trace[e][j].version = trace[e][i].version
                   /\ \A k \in begun : k <= i \/ k > j

\* C28: a transaction of migrate or rollback is open only while the call is at
\* a step inside its `with` block; every transaction the call began before was
\* committed or rolled back; and when the call has returned or raised, whether
\* from the forward or backward body, a callback or the ledger, no transaction
\* is open.
C28_TransactionsReleased ==
    \A e \in Executors :
        /\ tx[e].open <=> InTransaction(e)
        /\ (InMigrate(e) \/ InRollback(e)) => Released(e, tx[e].open)
        /\ (Returned(e) \/ pc[e] = "idle") => ~tx[e].open

\* remove_migration raised inside the transaction of a rollback.
C28_Witness ==
    \E e \in Executors :
        /\ Returned(e) /\ InRollback(e)
        /\ result[e].step = "remove" /\ result[e].status # "ok"
        /\ Happened(e, "begin", cur[e].version)
        /\ Happened(e, "abort", cur[e].version)

\* on_apply raised inside the transaction of the second migration of a migrate.
C28_WitnessCallback ==
    \E e \in Executors :
        /\ Returned(e) /\ InMigrate(e)
        /\ result[e] = Outcome("Error", "on_apply")
        /\ Cardinality({i \in 1..Len(trace[e]) : trace[e][i].ev = "begin"}) = 2
        /\ Cardinality({i \in 1..Len(trace[e]) : trace[e][i].ev = "commit"}) = 1
        /\ Cardinality({i \in 1..Len(trace[e]) : trace[e][i].ev = "abort"}) = 1

\* ------------------------------------------------------------------ specification 4
\* The constructor alone: Executor(driver, migrations_path, project, database,
\* schema_database) with each of database and schema_database absent, empty or
\* a name.
Databases == {Null, Empty, "graph", "ledger"}
Projects == {Null, "shop"}

\* Executor.__init__ and the MigrationDAO.__init__ it calls, on an object not
\* yet initialized.
ExecutorInit(e) ==
    /\ call[e] = NoCall
    /\ \E p \in Projects, db \in Databases, schema_db \in Databases, loaded \in LoadResults :
          /\ call' = [call EXCEPT ![e] = [op |-> "__init__", version |-> NoVersion,
                                          callback |-> FALSE, project |-> p,
                                          database |-> db, schema_database |-> schema_db]]
          /\ project' = [project EXCEPT ![e] = p]
          /\ schema_database' = [schema_database EXCEPT ![e] = SchemaDatabase(db, schema_db)]
          /\ database' = [database EXCEPT ![e] =
                            MigrationTarget(db, SchemaDatabase(db, schema_db))]
          /\ local_migrations' = [local_migrations EXCEPT ![e] = loaded]
    /\ UNCHANGED <<store, target, matched, pc, analysis, todo, cur, tx, trace, result,
                   calls>>

NextConfig ==
    \/ \E e \in Executors : ExecutorInit(e)

\* An empty store and one Executor object before its __init__ has run.
InitConfig ==
    /\ nodes = {}
    /\ edges = {}
    /\ constraint = FALSE
    /\ target = {}
    /\ local_migrations = [e \in {1} |-> <<>>]
    /\ project = [e \in {1} |-> Null]
    /\ database = [e \in {1} |-> Null]
    /\ schema_database = [e \in {1} |-> Null]
    /\ matched = [e \in {1} |-> {}]
    /\ pc = [e \in {1} |-> "idle"]
    /\ call = [e \in {1} |-> NoCall]
    /\ analysis = [e \in {1} |-> NoAnalysis]
    /\ todo = [e \in {1} |-> <<>>]
    /\ cur = [e \in {1} |-> NoMigration]
    /\ tx = [e \in {1} |-> NoTx]
    /\ trace = [e \in {1} |-> <<>>]
    /\ result = [e \in {1} |-> Outcome("none", "none")]
    /\ calls = 0

SpecConfig == InitConfig /\ [][NextConfig]_vars

\* The argument names a database: it is neither absent nor the empty string.
Named(x) == x \notin {Null, Empty}

\* C29: the executor keeps the ledger in the schema_database it was given when
\* that names a database, else in the database it was given when that names
\* one, else in the default database; the migration target of its scope is the
\* database it was given when that differs from the database of the ledger, and
\* absent otherwise.
C29_SchemaDatabase ==
    \A e \in Executors :
        call[e].op = "__init__" =>
            /\ Named(call[e].schema_database) =>
                  schema_database[e] = call[e].schema_database
            /\ (~Named(call[e].schema_database) /\ Named(call[e].database)) =>
                  schema_database[e] = call[e].database
            /\ (~Named(call[e].schema_database) /\ ~Named(call[e].database)) =>
                  ~Named(schema_database[e])
            /\ call[e].database # schema_database[e] => database[e] = call[e].database
            /\ call[e].database = schema_database[e] => database[e] = Null
            /\ project[e] = call[e].project

\* Only the database given: the ledger is kept in it and the scope has no target.
C29_Witness ==
    \E e \in Executors :
        /\ call[e].op = "__init__"
        /\ call[e].database = "graph" /\ call[e].schema_database = Null
        /\ schema_database[e] = "graph"
        /\ database[e] = Null

\* Both given and different: the scope's target is the migrated database.
C29_WitnessBoth ==
    \E e \in Executors :
        /\ call[e].op = "__init__"
        /\ call[e].database = "graph" /\ call[e].schema_database = "ledger"
        /\ schema_database[e] = "ledger"
        /\ database[e] = "graph"

\* ------------------------------------------------------------------ specification 5
\* Version strings and the two orders the program puts them in. A string is the
\* sequence of its characters.
MaxComponents == 3

DigitChars == <<"0", "1", "2", "3", "4", "5", "6", "7", "8", "9">>
DigitValue(c) == (CHOOSE i \in 1..10 : DigitChars[i] = c) - 1

\* The code point of a character of a version string.
Ord(c) == IF c = "." THEN 46 ELSE 48 + DigitValue(c)

\* The components the version strings are made of: 0, 3, 9, 10 and 20.
Components == {<<"0">>, <<"3">>, <<"9">>, <<"1", "0">>, <<"2", "0">>}

RECURSIVE Join(_)
Join(cs) == IF Len(cs) = 1 THEN cs[1] ELSE cs[1] \o <<".">> \o Join(Tail(cs))

VersionStrings ==
    {Join(cs) : cs \in UNION {[1..n -> Components] : n \in 1..MaxComponents}}

\* split(s, '.') of Cypher and str.split('.') of Python.
RECURSIVE Split(_)
Split(s) ==
    IF \A i \in 1..Len(s) : s[i] # "." THEN <<s>>
    ELSE LET i == CHOOSE k \in 1..Len(s) : s[k] = "." /\ \A j \in 1..(k - 1) : s[j] # "."
         IN <<SubSeq(s, 1, i - 1)>> \o Split(SubSeq(s, i + 1, Len(s)))

\* toInteger(x) of Cypher and int(x) of Python on a string of decimal digits.
RECURSIVE ToInteger(_)
ToInteger(ds) ==
    IF ds = <<>> THEN 0
    ELSE 10 * ToInteger(SubSeq(ds, 1, Len(ds) - 1)) + DigitValue(ds[Len(ds)])

\* get_applied_migrations: [x IN split(m.version, '.') | toInteger(x)]
StoreKey(s) == [i \in 1..Len(Split(s)) |-> ToInteger(Split(s)[i])]

\* packaging.version.Version(s).release
Release(s) == [i \in 1..Len(Split(s)) |-> ToInteger(Split(s)[i])]

\* packaging.version._cmpkey: the release without its trailing zeros.
RECURSIVE CmpKey(_)
CmpKey(release) ==
    IF release # <<>> /\ release[Len(release)] = 0
    THEN CmpKey(SubSeq(release, 1, Len(release) - 1))
    ELSE release

\* Python's < on tuples of integers.
TupleLess(x, y) ==
    LET differ == {i \in 1..Min(Len(x), Len(y)) : x[i] # y[i]}
    IN IF differ = {} THEN Len(x) < Len(y)
       ELSE LET i == CHOOSE k \in differ : \A j \in differ : k <= j
            IN x[i] < y[i]

\* Python's < on strings: by code point.
CharLess(a, b) ==
    TupleLess([i \in 1..Len(a) |-> Ord(a[i])], [i \in 1..Len(b) |-> Ord(b[i])])

\* A Migration.__lt__ that compares the version strings.
VersionLt_Chars(a, b) == CharLess(a, b)

\* Migration.__lt__: Version(a) < Version(b)
VersionLt(a, b) == TupleLess(CmpKey(Release(a)), CmpKey(Release(b)))

\* Migration.__lt__ on the two migrations of the call.
MigrationLt(e) ==
    /\ result[e].step = "none"
    /\ result' = [result EXCEPT ![e] = [status |-> "ok", step |-> "__lt__",
                                        value |-> VersionLt(call[e].a, call[e].b)]]
    /\ UNCHANGED <<store, target, conf, matched, pc, call, analysis, todo, cur, tx, trace,
                   calls>>

\* ORDER BY version on two rows with the versions of the call: the rows in the
\* order returned.
OrderByVersion(e) ==
    /\ todo[e] = <<>>
    /\ \E s \in {<<call[e].a, call[e].b>>, <<call[e].b, call[e].a>>} :
          /\ ~ListLess(StoreKey(s[2]), StoreKey(s[1]))
          /\ todo' = [todo EXCEPT ![e] = s]
    /\ UNCHANGED <<store, target, conf, matched, pc, call, analysis, cur, tx, trace, result,
                   calls>>

\* Two version strings, to be compared as local migrations and as rows.
InitVersions ==
    /\ nodes = {}
    /\ edges = {}
    /\ constraint = FALSE
    /\ target = {}
    /\ local_migrations = [e \in {1} |-> <<>>]
    /\ project = [e \in {1} |-> Null]
    /\ database = [e \in {1} |-> Null]
    /\ schema_database = [e \in {1} |-> Null]
    /\ matched = [e \in {1} |-> {}]
    /\ pc = [e \in {1} |-> "idle"]
    /\ \E a \in VersionStrings, b \in VersionStrings :
          call = [e \in {1} |-> [op |-> "compare", version |-> NoVersion,
                                 callback |-> FALSE, a |-> a, b |-> b]]
    /\ analysis = [e \in {1} |-> NoAnalysis]
    /\ todo = [e \in {1} |-> <<>>]
    /\ cur = [e \in {1} |-> NoMigration]
    /\ tx = [e \in {1} |-> NoTx]
    /\ trace = [e \in {1} |-> <<>>]
    /\ result = [e \in {1} |-> Outcome("none", "none")]
    /\ calls = 0

NextVersions ==
    \/ \E e \in Executors : MigrationLt(e)
    \/ \E e \in Executors : OrderByVersion(e)

SpecVersions == InitVersions /\ [][NextVersions]_vars

\* The components of a version string read as integers.
Numbers(s) == [i \in 1..Len(Split(s)) |-> ToInteger(Split(s)[i])]

\* x is before y in the order of integer tuples of one length.
IntTupleLess(x, y) ==
    \E i \in 1..Len(x) : x[i] < y[i] /\ \A j \in 1..(i - 1) : x[j] = y[j]

\* C30: for two version strings with the same number of components, a is less
\* than b as local migrations exactly when the integers of a come before those
\* of b as a tuple, and the rows come back with a first when they do and with b
\* first when those of b come before those of a; so 0.3.0 is before 0.20.0 and
\* 9 before 10, which the order of the characters has the other way round.
C30_IntegerComponents ==
    \A e \in Executors :
        LET a == call[e].a
            b == call[e].b
        IN Len(Split(a)) = Len(Split(b)) =>
              /\ result[e].step = "__lt__" =>
                    (result[e].value <=> IntTupleLess(Numbers(a), Numbers(b)))
              /\ todo[e] # <<>> =>
                    /\ IntTupleLess(Numbers(a), Numbers(b)) => todo[e] = <<a, b>>
                    /\ IntTupleLess(Numbers(b), Numbers(a)) => todo[e] = <<b, a>>

\* 0.3.0 and 0.20.0, compared both ways.
C30_Witness ==
    \E e \in Executors :
        /\ call[e].a = <<"0", ".", "3", ".", "0">>
        /\ call[e].b = <<"0", ".", "2", "0", ".", "0">>
        /\ result[e].step = "__lt__" /\ result[e].value
        /\ todo[e] = <<call[e].a, call[e].b>>
        /\ CharLess(call[e].b, call[e].a)

\* 9 and 10, compared both ways.
C30_WitnessTen ==
    \E e \in Executors :
        /\ call[e].a = <<"9">>
        /\ call[e].b = <<"1", "0">>
        /\ result[e].step = "__lt__" /\ result[e].value
        /\ todo[e] = <<call[e].a, call[e].b>>
        /\ CharLess(call[e].b, call[e].a)

\* x is before y in the order of version keys: element by element up to the
\* shorter length, then the shorter one first.
KeyLess(x, y) ==
    \/ \E i \in 1..Min(Len(x), Len(y)) : x[i] < y[i] /\ \A j \in 1..(i - 1) : x[j] = y[j]
    \/ Len(x) < Len(y) /\ \A j \in 1..Len(x) : x[j] = y[j]

\* C31 as stated: for any two version strings, of the same number of components
\* or not, a is less than b as local migrations exactly when the integers of a
\* come before those of b with no zero-padding (so 3 is less than 3.0), and
\* the rows come back in that same order.
C31_NoZeroPadding ==
    \A e \in Executors :
        LET a == call[e].a
            b == call[e].b
        IN /\ result[e].step = "__lt__" =>
                 (result[e].value <=> KeyLess(Numbers(a), Numbers(b)))
           /\ todo[e] # <<>> =>
                 /\ KeyLess(Numbers(a), Numbers(b)) => todo[e] = <<a, b>>
                 /\ KeyLess(Numbers(b), Numbers(a)) => todo[e] = <<b, a>>

\* What does hold: the rows come back in the order of the keys without
\* zero-padding, and the local comparison is that of the keys with their
\* trailing zeros dropped.
StoreOrderUnpadded ==
    \A e \in Executors :
        LET a == call[e].a
            b == call[e].b
        IN /\ todo[e] # <<>> =>
                 /\ KeyLess(Numbers(a), Numbers(b)) => todo[e] = <<a, b>>
                 /\ KeyLess(Numbers(b), Numbers(a)) => todo[e] = <<b, a>>
           /\ result[e].step = "__lt__" =>
                 (result[e].value <=>
                     KeyLess(CmpKey(Numbers(a)), CmpKey(Numbers(b))))

\* ------------------------------------------------------------------ specification 6
\* Cypher scripts. A script is the sequence of its characters, of which "U"
\* stands for the text of the marker of the forward section and "D" for the
\* text of the marker of the backward section.
MaxQueryLen == 5

UpMarker == "U"         \* '↑UP-MIGRATION'
DownMarker == "D"       \* '// ↓DOWN-MIGRATION'
QueryChars == {"a", "b", ";", " ", UpMarker, DownMarker}
Queries == UNION {[1..n -> QueryChars] : n \in 0..MaxQueryLen}

\* str.encode(): the UTF-8 bytes of a character of a script.
EncodeChar(c) ==
    CASE c = "a" -> <<97>>
      [] c = "b" -> <<98>>
      [] c = ";" -> <<59>>
      [] c = " " -> <<32>>
      [] c = UpMarker ->
            <<226, 134, 145, 85, 80, 45, 77, 73, 71, 82, 65, 84, 73, 79, 78>>
      [] c = DownMarker ->
            <<47, 47, 32, 226, 134, 147, 68, 79, 87, 78, 45, 77, 73, 71, 82, 65, 84, 73,
              79, 78>>

RECURSIVE Encode(_)
Encode(s) == IF s = <<>> THEN <<>> ELSE EncodeChar(Head(s)) \o Encode(Tail(s))

\* `marker in query`
Contains(s, c) == \E i \in 1..Len(s) : s[i] = c

\* The index of the first c in s.
Find(s, c) == CHOOSE i \in 1..Len(s) : s[i] = c /\ \A j \in 1..(i - 1) : s[j] # c

\* str.split(sep)
RECURSIVE SplitOn(_, _)
SplitOn(s, sep) ==
    IF ~Contains(s, sep) THEN <<s>>
    ELSE <<SubSeq(s, 1, Find(s, sep) - 1)>>
            \o SplitOn(SubSeq(s, Find(s, sep) + 1, Len(s)), sep)

\* str.strip()
RECURSIVE Strip(_)
Strip(s) ==
    IF s = <<>> THEN s
    ELSE IF Head(s) = " " THEN Strip(Tail(s))
    ELSE IF s[Len(s)] = " " THEN Strip(SubSeq(s, 1, Len(s) - 1))
    ELSE s

\* seq[:-1]
ButLast(seq) == SubSeq(seq, 1, Len(seq) - 1)

\* `if statements and statements[-1].strip() == "": statements = statements[:-1]`
DropBlankLast(seq) ==
    IF seq # <<>> /\ Strip(seq[Len(seq)]) = <<>> THEN ButLast(seq) ELSE seq

\* forward_pattern.search(query).group(1).strip(): the text after the first
\* marker of the forward section, up to the next marker of the backward section.
ForwardContent(query) ==
    IF ~Contains(query, UpMarker) THEN <<>>
    ELSE LET rest == SubSeq(query, Find(query, UpMarker) + 1, Len(query))
         IN Strip(IF Contains(rest, DownMarker)
                  THEN SubSeq(rest, 1, Find(rest, DownMarker) - 1)
                  ELSE rest)

\* down_pattern.search(query).group(1).strip(): the text after the first marker
\* of the backward section.
DownContent(query) ==
    IF ~Contains(query, DownMarker) THEN <<>>
    ELSE Strip(SubSeq(query, Find(query, DownMarker) + 1, Len(query)))

\* CypherMigration._parse_statements: (forward_statements, down_statements)
ParseStatements(query) ==
    IF ~Contains(query, UpMarker) /\ ~Contains(query, DownMarker)
    THEN <<ButLast(SplitOn(query, ";")), <<>>>>
    ELSE <<DropBlankLast(IF ForwardContent(query) # <<>>
                         THEN SplitOn(ForwardContent(query), ";") ELSE <<>>),
           DropBlankLast(IF DownContent(query) # <<>>
                         THEN SplitOn(DownContent(query), ";") ELSE <<>>)>>

\* list(filter(lambda statement: statement, [statement.strip() for ...]))
RECURSIVE Stripped(_)
Stripped(seq) ==
    IF seq = <<>> THEN <<>>
    ELSE IF Strip(Head(seq)) = <<>> THEN Stripped(Tail(seq))
    ELSE <<Strip(Head(seq))>> \o Stripped(Tail(seq))

\* A 32-bit value is the pair of its high and low 16 bits.
Zero32 == <<0, 0>>
Ones32 == <<65535, 65535>>
Poly32 == <<60856, 33568>>      \* 0xEDB88320, the polynomial of CRC-32 reflected

\* The bitwise exclusive or of two naturals.
RECURSIVE BitXor(_, _)
BitXor(m, n) ==
    IF m = 0 THEN n
    ELSE IF n = 0 THEN m
    ELSE ((m + n) % 2) + 2 * BitXor(m \div 2, n \div 2)

Xor32(x, y) == <<BitXor(x[1], y[1]), BitXor(x[2], y[2])>>
ShiftRight32(x) == <<x[1] \div 2, (x[2] \div 2) + 32768 * (x[1] % 2)>>

\* CRC-32 (zlib): k steps of the shift register.
RECURSIVE CrcSteps(_, _)
CrcSteps(x, k) ==
    IF k = 0 THEN x
    ELSE CrcSteps(IF x[2] % 2 = 1 THEN Xor32(ShiftRight32(x), Poly32)
                  ELSE ShiftRight32(x),
                  k - 1)

\* The register after the bytes of data, taken in order: after the first half
\* of them, then after the second half.
RECURSIVE CrcBytes(_, _)
CrcBytes(x, data) ==
    IF data = <<>> THEN x
    ELSE IF Len(data) = 1 THEN CrcSteps(Xor32(x, <<0, data[1]>>), 8)
    ELSE LET y == CrcBytes(x, SubSeq(data, 1, Len(data) \div 2))
         IN IF y[1] < 65536 /\ y[2] < 65536
            THEN CrcBytes(y, SubSeq(data, (Len(data) \div 2) + 1, Len(data)))
            ELSE Zero32

\* binascii.crc32(data, value)
Crc32(data, value) == Xor32(CrcBytes(Xor32(value, Ones32), data), Ones32)

\* str(n) for a 32-bit n given as its two halves: its decimal digits.
RECURSIVE Decimal(_, _)
Decimal(hi, lo) ==
    IF hi = 0 /\ lo < 10 THEN <<DigitChars[lo + 1]>>
    ELSE Decimal(hi \div 10, ((hi % 10) * 65536 + lo) \div 10)
            \o <<DigitChars[(((hi % 10) * 65536 + lo) % 10) + 1]>>

Str32(x) == Decimal(x[1], x[2])

\* None, where a checksum string is expected.
None == <<"None">>

\* The loop over the statements: `crc32(st, checksum) if checksum else crc32(st)`.
\* A checksum that is None or 0 is false, and crc32(st) is crc32(st, 0): the
\* running value None is kept as 0.
RECURSIVE ChecksumLoop(_, _)
ChecksumLoop(sts, checksum) ==
    IF sts = <<>> THEN checksum
    ELSE ChecksumLoop(Tail(sts),
                      IF checksum = Zero32 THEN Crc32(Encode(Head(sts)), Zero32)
                      ELSE Crc32(Encode(Head(sts)), checksum))

\* `str(checksum) if checksum else None`
ChecksumOf(sts) ==
    IF ChecksumLoop(sts, Zero32) = Zero32 THEN None
    ELSE Str32(ChecksumLoop(sts, Zero32))

\* CypherMigration.__attrs_post_init__: the statements of the two sections and
\* their checksums.
CypherMigration(query) ==
    [version |-> NoVersion,
     statements |-> Stripped(ParseStatements(query)[1]),
     rollback_statements |-> Stripped(ParseStatements(query)[2]),
     checksum |-> ChecksumOf(Stripped(ParseStatements(query)[1])),
     rollback_checksum |-> ChecksumOf(Stripped(ParseStatements(query)[2]))]

\* tx.run(statement) for each statement of sts, in order.
Runs(ev, sts) == [i \in 1..Len(sts) |-> Event(ev, sts[i])]

\* CypherMigration(version, description, query)
CypherInit(e) ==
    /\ cur[e] = NoMigration
    /\ cur' = [cur EXCEPT ![e] = CypherMigration(call[e].query)]
    /\ UNCHANGED <<store, target, conf, matched, pc, call, analysis, todo, tx, trace, result,
                   calls>>

\* CypherMigration.apply(tx)
CypherApply(e) ==
    /\ cur[e] # NoMigration
    /\ result[e].step = "none"
    /\ trace' = [trace EXCEPT ![e] = @ \o Runs("apply", cur[e].statements)]
    /\ result' = [result EXCEPT ![e] = Outcome("ok", "apply")]
    /\ UNCHANGED <<store, target, conf, matched, pc, call, analysis, todo, cur, tx, calls>>

\* CypherMigration.rollback(tx)
CypherRollback(e) ==
    /\ cur[e] # NoMigration
    /\ result[e].step \in {"none", "apply"}
    /\ IF cur[e].rollback_statements = <<>>
          THEN /\ result' = [result EXCEPT ![e] = Outcome("NotImplementedError", "rollback")]
               /\ UNCHANGED trace
          ELSE /\ trace' = [trace EXCEPT ![e] = @ \o Runs("rollback", cur[e].rollback_statements)]
               /\ result' = [result EXCEPT ![e] = Outcome("ok", "rollback")]
    /\ UNCHANGED <<store, target, conf, matched, pc, call, analysis, todo, cur, tx, calls>>

\* A script, of which no CypherMigration was made yet.
InitScripts ==
    /\ nodes = {}
    /\ edges = {}
    /\ constraint = FALSE
    /\ target = {}
    /\ local_migrations = [e \in {1} |-> <<>>]
    /\ project = [e \in {1} |-> Null]
    /\ database = [e \in {1} |-> Null]
    /\ schema_database = [e \in {1} |-> Null]
    /\ matched = [e \in {1} |-> {}]
    /\ pc = [e \in {1} |-> "idle"]
    /\ \E query \in Queries :
          call = [e \in {1} |-> [op |-> "CypherMigration", version |-> NoVersion,
                                 callback |-> FALSE, query |-> query]]
    /\ analysis = [e \in {1} |-> NoAnalysis]
    /\ todo = [e \in {1} |-> <<>>]
    /\ cur = [e \in {1} |-> NoMigration]
    /\ tx = [e \in {1} |-> NoTx]
    /\ trace = [e \in {1} |-> <<>>]
    /\ result = [e \in {1} |-> Outcome("none", "none")]
    /\ calls = 0

NextScripts ==
    \/ \E e \in Executors : CypherInit(e)
    \/ \E e \in Executors : CypherApply(e)
    \/ \E e \in Executors : CypherRollback(e)

SpecScripts == InitScripts /\ [][NextScripts]_vars

\* The sequence s with its elements i and j exchanged.
Swap(s, i, j) == [k \in 1..Len(s) |-> IF k = i THEN s[j] ELSE IF k = j THEN s[i] ELSE s[k]]

RECURSIVE Concat(_)
Concat(seq) == IF seq = <<>> THEN <<>> ELSE Head(seq) \o Concat(Tail(seq))

\* C32 as stated: the checksum of a CypherMigration is that of its sequence of
\* forward statements, and the same statements with two different ones
\* exchanged have another checksum.
C32_ChecksumOrderSensitive ==
    \A e \in Executors :
        cur[e] # NoMigration =>
            /\ cur[e].checksum = ChecksumOf(cur[e].statements)
            /\ \A i, j \in 1..Len(cur[e].statements) :
                  cur[e].statements[i] # cur[e].statements[j] =>
                      ChecksumOf(Swap(cur[e].statements, i, j)) # cur[e].checksum

\* What does hold: the checksum is that of the statements joined without a
\* separator, and exchanging two statements changes it when it changes the
\* joined text.
ChecksumOfJoinedText ==
    \A e \in Executors :
        cur[e] # NoMigration =>
            /\ cur[e].checksum = ChecksumOf(cur[e].statements)
            /\ cur[e].checksum = ChecksumOf(IF cur[e].statements = <<>> THEN <<>>
                                            ELSE <<Concat(cur[e].statements)>>)
            /\ \A i, j \in 1..Len(cur[e].statements) :
                  Concat(Swap(cur[e].statements, i, j)) # Concat(cur[e].statements) =>
                      ChecksumOf(Swap(cur[e].statements, i, j)) # cur[e].checksum

\* The number of times c occurs in s.
Occurrences(s, c) == Cardinality({i \in 1..Len(s) : s[i] = c})

\* A script with no marker, with an UP marker only, or with an UP marker and a
\* DOWN marker after it.
WellFormed(query) ==
    /\ Occurrences(query, UpMarker) <= 1
    /\ Occurrences(query, DownMarker) <= 1
    /\ Contains(query, DownMarker) =>
          Contains(query, UpMarker) /\ Find(query, UpMarker) < Find(query, DownMarker)

\* The forward section of a well-formed script: all of it without markers,
\* else the text from the UP marker to the DOWN marker or the end.
ForwardSection(query) ==
    IF ~Contains(query, UpMarker) THEN query
    ELSE SubSeq(query, Find(query, UpMarker) + 1,
                IF Contains(query, DownMarker) THEN Find(query, DownMarker) - 1
                ELSE Len(query))

\* The text after the DOWN marker.
DownSection(query) ==
    IF ~Contains(query, DownMarker) THEN <<>>
    ELSE SubSeq(query, Find(query, DownMarker) + 1, Len(query))

\* The non-empty trimmed statements of a text, separated by ';'.
StatementsOf(text) == Stripped(SplitOn(text, ";"))

\* The statements of the events ev of a trace, in order.
RECURSIVE RunsOf(_, _)
RunsOf(tr, ev) ==
    IF tr = <<>> THEN <<>>
    ELSE (IF Head(tr).ev = ev THEN <<Head(tr).version>> ELSE <<>>) \o RunsOf(Tail(tr), ev)

\* The script ends its last statement with ';' or has section markers.
Terminated(query) ==
    \/ Contains(query, UpMarker)
    \/ Strip(SplitOn(query, ";")[Len(SplitOn(query, ";"))]) = <<>>

\* C33 as stated: apply runs every non-empty trimmed statement of the forward
\* section of a well-formed script once and in order, a script without markers
\* being all forward section, and the statements after the DOWN marker are run
\* by rollback only, in order.
C33_ApplyRunsForwardSection ==
    \A e \in Executors :
        WellFormed(call[e].query) =>
            /\ result[e].step = "apply" =>
                  /\ RunsOf(trace[e], "apply") = StatementsOf(ForwardSection(call[e].query))
                  /\ RunsOf(trace[e], "rollback") = <<>>
            /\ result[e] = Outcome("ok", "rollback") =>
                  RunsOf(trace[e], "rollback") = StatementsOf(DownSection(call[e].query))
            /\ result[e].status = "NotImplementedError" =>
                  /\ StatementsOf(DownSection(call[e].query)) = <<>>
                  /\ RunsOf(trace[e], "rollback") = <<>>

\* What does hold: the same, for the scripts that end their last statement
\* with ';' or have section markers.
TerminatedScriptRuns ==
    \A e \in Executors :
        WellFormed(call[e].query) /\ Terminated(call[e].query) =>
            /\ result[e].step = "apply" =>
                  /\ RunsOf(trace[e], "apply") = StatementsOf(ForwardSection(call[e].query))
                  /\ RunsOf(trace[e], "rollback") = <<>>
            /\ result[e] = Outcome("ok", "rollback") =>
                  RunsOf(trace[e], "rollback") = StatementsOf(DownSection(call[e].query))
            /\ result[e].status = "NotImplementedError" =>
                  /\ StatementsOf(DownSection(call[e].query)) = <<>>
                  /\ RunsOf(trace[e], "rollback") = <<>>

\* ------------------------------------------------------------------ C34
\* C34: an entry of a migration is added to the ledger only by a migrate call
\* whose transaction of that migration's forward body has just committed, so
\* every append of a migrate call follows the commit of the same version.
C34_RecordAfterCommit ==
    /\ [](\A e \in Executors :
            InMigrate(e) =>
                \A i \in 1..Len(trace[e]) :
                    trace[e][i].ev = "append" =>
                        i > 1 /\ trace[e][i - 1] = Event("commit", trace[e][i].version))
    /\ [][\A n \in nodes' \ nodes :
            n.version # Baseline =>
                \E e \in Executors :
                    /\ InMigrate(e) /\ pc[e] = "record"
                    /\ cur[e].version = n.version /\ OwnNode(n, e)
                    /\ ~tx[e].open
                    /\ n.version \in target
                    /\ trace[e] # <<>>
                    /\ trace[e][Len(trace[e])] = Event("commit", n.version)]_vars

\* A migrate call has recorded a migration, after a callback, and its entry is
\* in the ledger.
C34_Witness ==
    \E e \in Executors :
        /\ InMigrate(e) /\ call[e].callback
        /\ \E i \in 1..Len(trace[e]) :
              /\ trace[e][i].ev = "append"
              /\ \E n \in nodes : n.version = trace[e][i].version /\ OwnNode(n, e)

\* ------------------------------------------------------------------ C35
\* The number of transactions of the executors that committed the forward body
\* of `version`.
BodyCommits(version) ==
    Cardinality(UNION {{<<e, i>> : i \in {j \in 1..Len(trace[e]) :
                                            /\ InMigrate(e)
                                            /\ trace[e][j] = Event("commit", version)}} :
                       e \in Executors})

\* C35 as stated: when two executors with the same local migrations run migrate
\* on one scope, however their steps interleave the forward body of each
\* migration is committed at most once and the ledger holds at most one entry
\* of each version.
C35_ConcurrentMigrateOnce ==
    \A version \in Versions :
        /\ BodyCommits(version) <= 1
        /\ \A e \in Executors :
              Cardinality({n \in Entries(e) : n.version = version}) <= 1

\* The part on the bodies alone.
BodiesCommittedOnce == \A version \in Versions : BodyCommits(version) <= 1

\* The part on the entries alone.
EntriesOncePerVersion ==
    \A version \in Versions, e \in Executors :
        Cardinality({n \in Entries(e) : n.version = version}) <= 1

\* ------------------------------------------------------------------ C36
\* The create_baseline call of e's migrate has returned.
BaselineEnsured(e) ==
    /\ InMigrate(e)
    /\ pc[e] \notin {"idle", "create_baseline", "create_baseline_node"}
    /\ \E i \in 1..Len(trace[e]) : trace[e][i].ev = "create_baseline"

\* C36 as stated: when the create_baseline calls of two executors on one scope
\* without baseline run at once, however their steps interleave the scope has
\* exactly one baseline once both have returned.
C36_ConcurrentBaselineOnce ==
    (\A e \in Executors : BaselineEnsured(e)) =>
        \A e \in Executors :
            Cardinality(BaselineRows(nodes, project[e], database[e])) = 1

\* What does hold: the scope has at least one baseline once a create_baseline
\* call has returned, and exactly one when the second call looked for the
\* baseline after the first had created it.
BaselineAtLeastOnce ==
    \A e \in Executors :
        BaselineEnsured(e) =>
            Cardinality(BaselineRows(nodes, project[e], database[e])) >= 1

\* ------------------------------------------------------------------ C37
\* C37 as stated: in every state that migrate and rollback calls reach, the
\* versions on the chain from the baseline to the head are strictly ascending,
\* so that the list get_applied_migrations returns has the order of the chain
\* and ends with the head of the chain.
C37_ChainAscending ==
    \A e \in Executors :
        BaselineRows(nodes, project[e], database[e]) # {} =>
            /\ \A i \in 1..(Len(Chain(e)) - 1) : ListLess(Chain(e)[i], Chain(e)[i + 1])
            /\ \A s \in Fetched(e) :
                  /\ [i \in 1..Len(s) |-> s[i].version] = Chain(e)
                  /\ s # <<>> =>
                        \E h \in Heads(nodes, edges, project[e], database[e]) :
                            h.version = s[Len(s)].version

\* The part on the chain alone.
ChainStrictlyAscending ==
    \A e \in Executors :
        BaselineRows(nodes, project[e], database[e]) # {} =>
            \A i \in 1..(Len(Chain(e)) - 1) : ListLess(Chain(e)[i], Chain(e)[i + 1])

\* ------------------------------------------------------------------ specification 7
\* A migrate call and, once it has returned, a rollback call made by a second
\* Executor object on the same migrations directory and the same scope. The
\* first executor keeps what its migrate call observed, so that a state after
\* the rollback shows the applied list of before the migrate.

\* Executor(driver, migrations_path): the executor e loads the directory the
\* executor d has loaded.
NewExecutorOnDirectoryOf(e, d) ==
    /\ pc[e] = "idle"
    /\ local_migrations[e] # local_migrations[d]
    /\ local_migrations' = [local_migrations EXCEPT ![e] = local_migrations[d]]
    /\ UNCHANGED <<store, target, project, database, schema_database, matched, pc, call,
                   analysis, todo, cur, tx, trace, result, calls>>

\* The migrations directory of the round trip: any set of versions, every
\* migration with a backward body.
RoundTripLoadResults == {s \in LoadResults : \A i \in 1..Len(s) : s[i].checksum = 1 /\ s[i].down}

InitRoundTrip ==
    /\ nodes = {}
    /\ edges = {}
    /\ constraint = FALSE
    /\ target = {}
    /\ \E loaded \in RoundTripLoadResults : local_migrations = [e \in {1, 2} |-> loaded]
    /\ project = [e \in {1, 2} |-> Null]
    /\ database = [e \in {1, 2} |-> MigrationTarget(Null, SchemaDatabase(Null, Null))]
    /\ schema_database = [e \in {1, 2} |-> SchemaDatabase(Null, Null)]
    /\ matched = [e \in {1, 2} |-> {}]
    /\ pc = [e \in {1, 2} |-> "idle"]
    /\ call = [e \in {1, 2} |-> NoCall]
    /\ analysis = [e \in {1, 2} |-> NoAnalysis]
    /\ todo = [e \in {1, 2} |-> <<>>]
    /\ cur = [e \in {1, 2} |-> NoMigration]
    /\ tx = [e \in {1, 2} |-> NoTx]
    /\ trace = [e \in {1, 2} |-> <<>>]
    /\ result = [e \in {1, 2} |-> Outcome("none", "none")]
    /\ calls = 0

\* Executor 1 migrates, call after call; executor 2 makes one rollback() call
\* without version, after a migrate call of executor 1 has returned. No
\* callbacks are given.
NextRoundTrip ==
    \/ pc[2] = "idle" /\ NewExecutor(1) /\ local_migrations'[1] \in RoundTripLoadResults
    \/ pc[2] = "idle" /\ MigrateCall(1) /\ ~call'[1].callback
    \/ pc[2] = "idle" /\ Forget(1)
    \/ \E e \in Executors : CreateBaselineMatch(e)
    \/ \E e \in Executors : CreateBaselineNode(e)
    \/ \E e \in Executors : CreateConstraints(e)
    \/ \E e \in Executors : MigrateSelect(e)
    \/ \E e \in Executors : MigrateReturn(e)
    \/ \E e \in Executors : MigrateDryRun(e)
    \/ \E e \in Executors : MigrateBegin(e)
    \/ \E e \in Executors : MigrateApply(e)
    \/ \E e \in Executors : MigrateOnApply(e)
    \/ \E e \in Executors : MigrateCommit(e)
    \/ \E e \in Executors : MigrateRecord(e)
    \/ pc[1] = "returned" /\ InMigrate(1) /\ NewExecutorOnDirectoryOf(2, 1)
    \/ /\ pc[1] = "returned" /\ InMigrate(1)
       /\ local_migrations[2] = local_migrations[1]
       /\ RollbackCall(2)
       /\ call'[2].version = NoVersion /\ ~call'[2].callback
    \/ \E e \in Executors : RollbackReturn(e)
    \/ \E e \in Executors : RollbackBegin(e)
    \/ \E e \in Executors : RollbackBody(e)
    \/ \E e \in Executors : RollbackOnRollback(e)
    \/ \E e \in Executors : RollbackRemove(e)
    \/ \E e \in Executors : RollbackCommit(e)

SpecRoundTrip == InitRoundTrip /\ [][NextRoundTrip]_vars

\* The versions the migrate call of e has recorded.
Appended(e) == {trace[e][i].version : i \in {j \in 1..Len(trace[e]) : trace[e][j].ev = "append"}}

\* The migrate call of executor m has returned normally after recording the one
\* migration `version`, and the rollback() call without version that executor r
\* made after it has returned normally.
RoundTrip(m, r, version) ==
    /\ Returned(m) /\ InMigrate(m) /\ result[m].status = "ok"
    /\ Cardinality({i \in 1..Len(trace[m]) : trace[m][i].ev = "append"}) = 1
    /\ Appended(m) = {version}
    /\ Returned(r) /\ InRollback(r) /\ call[r].version = NoVersion
    /\ result[r].status = "ok"

\* C38 as stated: after a migrate that applied one pending migration and a
\* rollback() without version, both successful, get_applied_migrations returns
\* the list it returned before the migrate and the migration is pending again
\* in the next analysis, whether its version is above or below the versions
\* applied before.
C38_MigrateRollbackRoundTrip ==
    \A version \in Versions :
        RoundTrip(1, 2, version) =>
            /\ Fetched(2) = {analysis[1].applied}
            /\ \A applied \in Fetched(2) :
                  version \in VersionsOf(Analyze(local_migrations[2], applied).pending_migrations)

\* What does hold: the same when the version of the migration is above every
\* version applied before the migrate.
RoundTripAboveApplied ==
    \A version \in Versions :
        (/\ RoundTrip(1, 2, version)
         /\ \A v \in VersionsOf(analysis[1].applied) : ListLess(v, version)) =>
            /\ Fetched(2) = {analysis[1].applied}
            /\ \A applied \in Fetched(2) :
                  version \in VersionsOf(Analyze(local_migrations[2], applied).pending_migrations)

\* The round trip has been made with a version above the applied ones.
RoundTripAboveReached ==
    \E version \in Versions :
        /\ RoundTrip(1, 2, version)
        /\ analysis[1].applied # <<>>
        /\ \A v \in VersionsOf(analysis[1].applied) : ListLess(v, version)

====
